---- MODULE Spec2Model ----
(***************************************************************************)
(* A model of the relay server of src/server2.py: the account store, the   *)
(* slot allocator, the session directory USERS, the room registry          *)
(* server.rooms and one handler thread per connection.                     *)
(*                                                                         *)
(* Python runs the handler threads with no lock, so a thread may be        *)
(* pre-empted between any two accesses of the shared dictionaries.  Each   *)
(* action below is one handler step: the code between two such accesses.   *)
(* Spec lets the threads interleave step by step (mode "threads");         *)
(* SpecSerial runs the same steps with one handler at a time (mode         *)
(* "serial": every packet is handled to its end before the next is         *)
(* received) and records the state before the packet in ev, so that a      *)
(* handler's effect can be stated.  SpecAuth and SpecRelay are serial too,  *)
(* with the packets of the login handshake and of the room traffic (and a  *)
(* third connection); SpecRace interleaves the threads of a Join and of    *)
(* the room traffic.  sent holds what the handlers wrote to each socket.   *)
(* SpecList is serial with room list requests, SpecReplay with the state   *)
(* packets of a room that a third client joins.  Four parts are also run   *)
(* on their own: handle()'s read loop over a byte stream (SpecFrame), the   *)
(* slot allocator under any sequence of calls (SpecSlots), the round timer *)
(* under a clock that advances (SpecTimer) and the unlocked sendall calls  *)
(* of two threads on one socket, write by write (SpecSend).                *)
(*                                                                         *)
(* Strings are sequences of one-character strings: "03r" is <<"0","3","r">>*)
(***************************************************************************)
EXTENDS Integers, Sequences, FiniteSets, TLC

\* ---------------------------------------------------------------- bounds
NConns == 2
\* the connections of the room-traffic runs: a joiner and two room members
NRelayConns == 3
\* packets received in a run: one handler at a time, and interleaved threads
MaxPackets == 5
MaxRacePackets == 4
MaxAuthPackets == 4
MaxRelayPackets == 7
MaxJoinRacePackets == 5
MaxListPackets == 5
MaxReplayPackets == 8
\* the slot range stands for range(1, 1000)
MaxSlot == 3

RoundLength == 600
\* time.time() is a float: the clock of the model ticks this often a second
TicksPerSecond == 2
\* the calls and clock steps of a run of the round timer
MaxTimerSteps == 6
\* the packets relayed in a run of the socket writes
MaxSendPackets == 2
\* the bytes a socket with a full buffer takes in one send call
SendRoomLeft == 2

Conns == 1..NRelayConns
Slots == 1..MaxSlot

\* ------------------------------------------------------ values and strings
\* Python's None: for a room name or a cached state (NONE), a room reference
\* (NoObj), self.account_id (NoAcc) and a round start (NoTime)
NONE == <<"None">>
NoObj == 0
NoAcc == 0
NoTime == -1
Lobby == <<"_">>
LobbyObj == 1
SP == " "
SOH == "SOH"
SEMI == ";"
\* the packet terminator "\x00"
NUL == "NUL"

MinOf(S) == CHOOSE x \in S : \A y \in S : x <= y

StartsWith(s, pre) == Len(s) >= Len(pre) /\ SubSeq(s, 1, Len(pre)) = pre

\* s[n:]
Drop(s, n) == SubSeq(s, n + 1, Len(s))

\* s[:n]
Take(s, n) == SubSeq(s, 1, IF n < Len(s) THEN n ELSE Len(s))

Contains(s, ch) == \E i \in 1..Len(s) : s[i] = ch

\* s.split(ch, 1) of a string that contains ch
SplitFirst(s, ch) ==
    LET i == MinOf({j \in 1..Len(s) : s[j] = ch})
    IN  <<SubSeq(s, 1, i - 1), SubSeq(s, i + 1, Len(s))>>

RECURSIVE LStrip(_)
LStrip(s) == IF s # <<>> /\ Head(s) = SP THEN LStrip(Tail(s)) ELSE s

RECURSIVE RStrip(_)
RStrip(s) ==
    IF s # <<>> /\ s[Len(s)] = SP THEN RStrip(SubSeq(s, 1, Len(s) - 1)) ELSE s

\* str.strip()
Strip(s) == RStrip(LStrip(s))

IsNotSOH(ch) == ch # SOH

normalize_room_name(name) == Strip(SelectSeq(name, IsNotSOH))

md5_hash(s) == <<"md5", s>>

\* Python's truth value of a room name: None and "" are false
Falsy(name) == name = NONE \/ name = <<>>

\* ------------------------------------------------------------- the packets
PktAuthAX == <<"0", "9", "a", ";", "x">>
PktAuthBX == <<"0", "9", "b", ";", "x">>
PktJoinLobby == <<"0", "3", "_">>
PktJoinR == <<"0", "3", "r">>
PktCreateR == <<"0", "2", "A", "0", "0", "r", ";", "F">>
PktCreateRSp == <<"0", "2", "A", "0", "0", "r", ";", SP, "F">>
PktCreateLobby == <<"0", "2", "A", "0", "0", "_", ";", "F">>
PktCreateEmpty == <<"0", "2", "A", "0", "0", ";", "F">>
PktPolicy == <<"<policy-file-request/>">>
PktAuthAY == <<"0", "9", "a", ";", "y">>
PktAuthCX == <<"0", "9", "c", ";", "x">>
PktAuthBad == <<"0", "9", "a">>
PktList == <<"0", "1">>
PktState == <<"1", "x">>
PktState8 == <<"8", "x">>
PktRelay4 == <<"4", "x">>
PktRelay6 == <<"6", "x">>
PktRelay7 == <<"7", "x">>
PktChat == <<"9", "x">>
PktTimer == <<"p">>
PktPm1 == <<"0", "0", "0", "0", "1", "9", "x">>
PktPm3 == <<"0", "0", "0", "0", "3", "9", "x">>
PktUnknown == <<"z", "x">>
PktUnknown0 == <<"0", "z">>
PktRaw == <<"0", "k", "x">>

\* what the clients send when the threads interleave
ThreadPackets ==
    {PktAuthAX, PktAuthBX, PktJoinLobby, PktJoinR, PktCreateR}

\* what the clients send when the handlers run one at a time
SerialPackets ==
    ThreadPackets \cup {PktCreateRSp, PktCreateLobby, PktCreateEmpty}

\* the login handshake, and the packets a client sends before it is through
AuthPackets ==
    {PktAuthAX, PktAuthAY, PktAuthBX, PktAuthBad, PktJoinLobby, PktCreateR,
     PktList, PktState, PktRelay4, PktChat, PktTimer, PktPm1, PktUnknown,
     PktUnknown0}

\* the room traffic of clients that have logged in
RelayPackets ==
    {PktAuthAX, PktAuthBX, PktAuthCX, PktCreateR, PktJoinR, PktState,
     PktRelay4, PktChat, PktPm3, PktUnknown}

\* room list requests between the creation and the leaving of rooms
ListPackets ==
    {PktAuthAX, PktAuthBX, PktCreateR, PktCreateEmpty, PktJoinLobby, PktList}

\* the movement of the members of a room that a third client then joins
ReplayPackets ==
    {PktAuthAX, PktAuthBX, PktAuthCX, PktCreateR, PktJoinR, PktState,
     PktState8}

\* a Join racing with the room traffic: the client of connection 1 makes the
\* room, the client of connection 2 joins it
RacePackets == {PktAuthAX, PktAuthBX, PktCreateR, PktJoinR, PktRelay4}

RaceScript(c) ==
    IF c = 1
    THEN {PktAuthAX, PktCreateR, PktRelay4}
    ELSE {PktAuthBX, PktJoinR, PktRelay4}

\* the client of connection 1 makes the room and moves in it, the others join
ReplayScript(c) ==
    IF c = 1
    THEN {PktAuthAX, PktCreateR, PktState, PktState8}
    ELSE {PktAuthBX, PktAuthCX, PktJoinR}

\* the name a well-behaved client of connection c logs in with
AuthOf(c) ==
    CASE c = 1 -> PktAuthAX
      [] c = 2 -> PktAuthBX
      [] OTHER -> PktAuthCX

\* ---------------------------------------------------------------- the state
VARIABLES
    userDb,       \* USER_DB: username -> [hash, acc_id]
    nextId,       \* next_id
    users,        \* USERS: account id -> [username, socket, room, slot]
    free,         \* SLOTS.free
    used,         \* SLOTS.used: account id -> slot
    rooms,        \* server.rooms: room name -> the room object
    heap,         \* the room objects: [settings_string, players, round_start]
    sock,         \* each connection's socket: "open" or "closed"
    pc,           \* each handler thread's position
    account_id,   \* each handler's self.account_id (NoAcc: None)
    loc,          \* each handler's local variables
    npkts,        \* packets received so far
    now,          \* time.time()
    mode,         \* "threads": the handlers interleave; "serial": one at a time
    ev,           \* the packet being handled and the state before it (serial)
    lastDeleted,  \* the room name most recently deleted from the registry
    sent,         \* what sendall wrote to each socket (unless mode "threads")
    wire,         \* every byte one client writes to its connection, in order
    nread,        \* how many of them handle()'s recv calls have returned
    buf,          \* handle()'s buf: the decoded text not yet split off
    dispatched,   \* the packets handle() has passed to handle_packet
    fpc           \* handle()'s position: "recv", "split", or "done"

\* the state of one connection's read loop
frameVars == <<wire, nread, buf, dispatched, fpc>>

vars == <<userDb, nextId, users, free, used, rooms, heap, sock, pc,
          account_id, loc, npkts, now, mode, ev, lastDeleted, sent,
          frameVars>>

EmptyUsers == [a \in {} |-> 0]

LocInit ==
    [pkt |-> <<>>, username |-> <<>>, password |-> <<>>, acc_id |-> NoAcc,
     slot |-> 0, old |-> NONE, room |-> NoObj, ret |-> "", usock |-> 0,
     todo |-> <<>>]

EvNone ==
    [op |-> "none", conn |-> 0, pkt |-> <<>>, acc |-> NoAcc,
     users |-> EmptyUsers, members |-> EmptyUsers, free |-> {},
     used |-> EmptyUsers, userDb |-> EmptyUsers, sock |-> <<>>,
     done |-> FALSE]

\* the member set of every room of the registry
Members == [n \in DOMAIN rooms |-> heap[rooms[n]].players]

InitServer ==
    /\ userDb = [u \in {} |-> 0]
    /\ nextId = 1
    /\ users = EmptyUsers
    /\ free = Slots
    /\ used = EmptyUsers
    /\ rooms = [n \in {Lobby} |-> LobbyObj]
    /\ heap = [o \in {LobbyObj} |->
                 [settings_string |-> <<>>, players |-> {}, round_start |-> NoTime]]
    /\ sock = [c \in Conns |-> "closed"]
    /\ pc = [c \in Conns |-> "free"]
    /\ account_id = [c \in Conns |-> NoAcc]
    /\ loc = [c \in Conns |-> LocInit]
    /\ npkts = 0
    /\ ev = EvNone
    /\ lastDeleted = NONE
    /\ sent = [c \in Conns |-> <<>>]

\* the runs of the whole server receive whole packets, with no byte stream,
\* and take no time
InitCommon ==
    /\ InitServer
    /\ now = 0
    /\ wire = <<>>
    /\ nread = 0
    /\ buf = <<>>
    /\ dispatched = <<>>
    /\ fpc = "recv"

Init == InitCommon /\ mode = "threads"

InitSerial == InitCommon /\ mode = "serial"

InitAuth == InitCommon /\ mode = "auth"

InitRelay == InitCommon /\ mode = "relay"

InitRace == InitCommon /\ mode = "race"

InitList == InitCommon /\ mode = "list"

InitReplay == InitCommon /\ mode = "replay"

\* the modes that run one handler at a time
serial == mode \in {"serial", "auth", "relay", "list", "replay"}

\* ------------------------------------------------------------- scheduling
Resting == {"free", "idle", "dead"}

\* no handler is in the middle of an operation
Quiescent == \A c \in Conns : pc[c] \in Resting

CanStep(c) == serial => \A d \in Conns \ {c} : pc[d] \in Resting

Packets ==
    CASE mode = "serial" -> SerialPackets
      [] mode = "auth" -> AuthPackets
      [] mode = "relay" -> RelayPackets
      [] mode = "list" -> ListPackets
      [] mode = "replay" -> ReplayPackets
      [] mode = "race" -> RacePackets
      [] OTHER -> ThreadPackets

Budget ==
    CASE mode = "serial" -> MaxPackets
      [] mode = "auth" -> MaxAuthPackets
      [] mode = "relay" -> MaxRelayPackets
      [] mode = "list" -> MaxListPackets
      [] mode = "replay" -> MaxReplayPackets
      [] mode = "race" -> MaxJoinRacePackets
      [] OTHER -> MaxRacePackets

\* the connections in use
ConnLimit == IF mode \in {"relay", "replay"} THEN NRelayConns ELSE NConns

\* the clients of the room-traffic runs log in first, once, under their own
\* name
WellBehaved == mode \in {"relay", "replay", "race"}

\* handle_packet's "Everything below requires auth"
Authed(c) == account_id[c] # NoAcc /\ account_id[c] \in DOMAIN users

\* the room traffic of the three-client runs starts when all three clients
\* have logged in
Settled ==
    mode \in {"relay", "replay"} => \A c \in 1..ConnLimit : account_id[c] # NoAcc

\* handle()'s read loop hands handle_packet the next packet of the connection
CanRecv(c, p) ==
    /\ pc[c] = "idle"
    /\ CanStep(c)
    /\ npkts < Budget
    /\ p \in Packets
    /\ mode = "race" => p \in RaceScript(c)
    /\ mode = "replay" => p \in ReplayScript(c)
    /\ WellBehaved =>
           IF StartsWith(p, <<"0", "9">>)
           THEN p = AuthOf(c) /\ ~Authed(c)
           ELSE Authed(c) /\ Settled

StartEv(op, c, p) ==
    IF serial
    THEN [op |-> op, conn |-> c, pkt |-> p, acc |-> account_id[c],
          users |-> users, members |-> Members, free |-> free, used |-> used,
          userDb |-> userDb, sock |-> sock, done |-> FALSE]
    ELSE ev

EndEv == IF serial THEN [ev EXCEPT !.done = TRUE] ELSE ev

\* the room objects still referenced by the registry or by a handler's local
Live(rms, lc) == {rms[n] : n \in DOMAIN rms} \cup {lc[c].room : c \in Conns}

Gc(h, rms, lc) == [o \in (DOMAIN h \cap Live(rms, lc)) |-> h[o]]

NewObj == MinOf({o \in 1..(Cardinality(DOMAIN heap) + 1) : o \notin DOMAIN heap})

\* the if/elif chain of handle_packet
Unhandled_Forwarded == "raw"

\* lines 767-768, the else of the chain: the packet is printed, nothing more
Unhandled == "unhandled"

Kind(packet, authed) ==
    IF packet = PktPolicy THEN "policy"
    ELSE IF StartsWith(packet, <<"1">>) \/ StartsWith(packet, <<"8">>) THEN "state"
    ELSE IF StartsWith(packet, <<"0", "9">>) THEN "auth"
    ELSE IF ~authed THEN "ignored"
    ELSE IF StartsWith(packet, <<"0", "3">>) THEN "join"
    ELSE IF packet = <<"0", "1">> THEN "list"
    ELSE IF StartsWith(packet, <<"0", "4">>) THEN "info"
    ELSE IF StartsWith(packet, <<"0", "2">>) THEN "create"
    ELSE IF StartsWith(packet, <<"9", "?">>) THEN "ping"
    ELSE IF StartsWith(packet, <<"4">>) THEN "relay"
    ELSE IF StartsWith(packet, <<"6">>) THEN "relay"
    ELSE IF StartsWith(packet, <<"7">>) THEN "relay"
    ELSE IF StartsWith(packet, <<"0", "k">>) \/ StartsWith(packet, <<"0", "q">>)
         THEN "raw"
    ELSE IF StartsWith(packet, <<"9">>) THEN "chat"
    ELSE IF StartsWith(packet, <<"0", "d">>) THEN "custom"
    ELSE IF packet = <<"p">> THEN "timer"
    ELSE IF StartsWith(packet, <<"0", "0">>) THEN "pm"
    ELSE Unhandled

\* ------------------------------------------------- the packets sent
Digits == <<"0", "1", "2", "3", "4", "5", "6", "7", "8", "9">>

\* f"{n:03d}" and f"{n:02d}"
Fmt3(n) ==
    <<Digits[((n \div 100) % 10) + 1], Digits[((n \div 10) % 10) + 1],
      Digits[(n % 10) + 1]>>

Fmt2(n) == <<Digits[((n \div 10) % 10) + 1], Digits[(n % 10) + 1]>>

\* wire_id(account_id): KeyError unless USERS holds the account
wire_id(acc) == Fmt3(users[acc].slot)

MsgBadFormat == <<"10;0;Bad format">>
MsgHandshakeAck == <<"00;1">>
MsgBadPassword_AsBadFormat == <<"10;0;Bad format">>

MsgBadPassword == <<"10;0;Incorrect password">>
Msg0p == <<"0", "p">>

\* f"10;1;{acc_id};{username};{username};{pwd_hash};1"
login_ack(acc_id, username, password) ==
    <<"10;1;", ToString(acc_id), ";">> \o username \o <<";">> \o username
        \o <<";", "md5">> \o password \o <<";1">>

\* auth_packet: "A" + wire id + the padded name and the profile fields
auth_packet(slot, username) ==
    <<"A">> \o Fmt3(slot) \o <<"#">> \o username \o <<"profile">>

MsgC(w) == <<"C">> \o w
MsgD(w) == <<"D">> \o w
MsgR(w) == <<"R">> \o w
MsgG(w) == <<"G">> \o w
MsgI(w) == <<"I">> \o w
Msg6(w) == <<"6">> \o w \o <<"100000000000">>
MsgS(settings) == <<"s">> \o settings
MsgP(remaining) == <<"p", ToString(remaining)>>

\* game_user_packet: "U" + wire id + the 35-character header and the stats
game_user_packet(acc) ==
    <<"U">> \o wire_id(acc) \o <<"game", "#">> \o users[acc].username

\* lobby_user_packet: empty unless the account's room is the lobby
lobby_user_packet(acc) ==
    IF users[acc].room # Lobby
    THEN <<>>
    ELSE <<"U">> \o wire_id(acc) \o <<"lobby", "#">> \o users[acc].username

\* max(0, length - int(time.time() - start)), start = time.time() when unset
int_seconds_Ceil(ticks) == (ticks + TicksPerSecond - 1) \div TicksPerSecond

\* int(time.time() - start): the clock counts ticks of 1/TicksPerSecond
\* second, and int() drops the fraction of a second, toward zero
int_seconds(ticks) ==
    IF ticks >= 0 THEN ticks \div TicksPerSecond
    ELSE 0 - ((0 - ticks) \div TicksPerSecond)

Remaining(round_start) ==
    LET start == IF round_start = NoTime THEN now ELSE round_start
        left == RoundLength - int_seconds(now - start)
    IN  IF left < 0 THEN 0 ELSE left

\* build_room_list_bytes: "01", then count and name of every room but the
\* lobby (the rooms are taken in one fixed order, not in the dict's)
RECURSIVE RoomListBody(_, _, _)
RoomListBody(names, rms, h) ==
    IF names = {}
    THEN <<>>
    ELSE LET n == CHOOSE x \in names : \A y \in names : Len(x) <= Len(y)
         IN  Fmt2(Cardinality(h[rms[n]].players)) \o n \o <<SEMI>>
                 \o RoomListBody(names \ {n}, rms, h)

build_room_list_bytes(rms, h) ==
    <<"0", "1">> \o RoomListBody(DOMAIN rms \ {Lobby}, rms, h)

\* one sendall: to a socket (0: the lookup before the send raises KeyError),
\* inside a try/except OSError (guarded) or not
Att(to, msg, guarded) == [to |-> to, msg |-> msg, guarded |-> guarded]

KeyErr == Att(0, <<>>, FALSE)

IsOpen(s) == s \in Conns /\ sock[s] = "open"

\* the first send that raises out of the handler (Len + 1: none does)
FirstFail(att) ==
    MinOf({i \in 1..Len(att) : ~att[i].guarded /\ ~IsOpen(att[i].to)}
          \cup {Len(att) + 1})

Raises(att) == FirstFail(att) <= Len(att)

\* the packets that reached socket s
Reached(att, s) ==
    LET done == SubSeq(att, 1, FirstFail(att) - 1)
        mine == SelectSeq(done, LAMBDA a : a.to = s /\ IsOpen(s) /\ a.msg # <<>>)
    IN  [i \in 1..Len(mine) |-> mine[i].msg]

Logging == mode # "threads"

\* sent after a handler step wrote att: base is what the step started from
Sent(base, att) ==
    IF Logging THEN [s \in Conns |-> base[s] \o Reached(att, s)] ELSE sent

NoSent == [c \in Conns |-> <<>>]

\* a handler that starts on a packet starts a new record of what it sent
SentAtStart == IF mode = "race" THEN sent ELSE NoSent

\* the orders in which a set can be iterated
Orders(S) ==
    {f \in [1..Cardinality(S) -> S] : \A i, j \in 1..Cardinality(S) :
                                         i # j => f[i] # f[j]}

\* an order of S: where the order of the iteration changes nothing
AnOrder(S) == CHOOSE f \in Orders(S) : TRUE

RECURSIVE Flatten(_)
Flatten(ss) == IF ss = <<>> THEN <<>> ELSE Head(ss) \o Flatten(Tail(ss))

\* ------------------------------------------------------------ connections
\* ThreadingTCPServer accepts a connection and starts handle() on a new thread
Accept(c) ==
    /\ pc[c] \in {"free", "dead"}
    /\ \A d \in 1..(c - 1) : pc[d] # "free"
    /\ c <= ConnLimit
    /\ CanStep(c)
    /\ npkts < Budget
    /\ \A a \in DOMAIN users : users[a].socket # c
    /\ \A d \in Conns : loc[d].usock # c
    /\ pc' = [pc EXCEPT ![c] = "idle"]
    /\ sock' = [sock EXCEPT ![c] = "open"]
    /\ account_id' = [account_id EXCEPT ![c] = NoAcc]
    /\ loc' = [loc EXCEPT ![c] = LocInit]
    /\ UNCHANGED <<userDb, nextId, users, free, used, rooms, heap, npkts, now,
                   mode, frameVars, ev, lastDeleted, sent>>

\* -------------------------------------------------------- AUTH REQUEST (09)
\* the end of handle_packet: back to the read loop
Finish(c) ==
    /\ pc' = [pc EXCEPT ![c] = "idle"]
    /\ loc' = [loc EXCEPT ![c] = LocInit]
    /\ ev' = EndEv

\* an exception: handle() catches it around handle_packet and reads on; raised
\* by remove_user in handle()'s finally it ends the thread where it stands
Raise(c) ==
    /\ pc' = [pc EXCEPT ![c] = IF loc[c].ret = "remove" THEN "dead" ELSE "idle"]
    /\ loc' = [loc EXCEPT ![c] = LocInit]
    /\ ev' = EndEv

HashMatches_Any(pwd_hash, stored_hash) == TRUE

\* line 413: if pwd_hash != stored_hash
HashMatches(pwd_hash, stored_hash) == pwd_hash = stored_hash

\* lines 398-425 for a name USER_DB knows, 398-417 up to save_user otherwise
RecvAuth(c) ==
    \E p \in Packets :
        /\ CanRecv(c, p)
        /\ Kind(p, Authed(c)) = "auth"
        /\ npkts' = npkts + 1
        /\ LET creds == Drop(p, 2)
               username == SplitFirst(creds, SEMI)[1]
               password == SplitFirst(creds, SEMI)[2]
               answer ==
                   IF username \notin DOMAIN userDb
                   THEN <<>>
                   ELSE IF ~HashMatches(md5_hash(password),
                                        userDb[username].hash)
                   THEN <<Att(c, MsgBadPassword, FALSE)>>
                   ELSE <<Att(c, login_ack(userDb[username].acc_id, username,
                                           password), FALSE)>>
               att == IF ~Contains(creds, SEMI)
                      THEN <<Att(c, MsgBadFormat, FALSE)>>
                      ELSE <<Att(c, MsgHandshakeAck, FALSE)>> \o answer
           IN  /\ sent' = Sent(SentAtStart, att)
               /\ IF ~Contains(creds, SEMI) \/ sock[c] = "closed"
                  THEN \* "Bad format", or the handshake ack fails on a closed socket
                       /\ pc' = pc
                       /\ loc' = loc
                       /\ ev' = [StartEv("auth", c, p) EXCEPT !.done = serial]
                       /\ UNCHANGED account_id
                  ELSE IF username \in DOMAIN userDb
                  THEN IF ~HashMatches(md5_hash(password),
                                       userDb[username].hash)
                       THEN \* "Incorrect password"
                            /\ pc' = pc
                            /\ loc' = loc
                            /\ ev' = [StartEv("auth", c, p) EXCEPT !.done = serial]
                            /\ UNCHANGED account_id
                       ELSE /\ pc' = [pc EXCEPT ![c] = "alloc_min"]
                            /\ loc' = [loc EXCEPT ![c] =
                                         [LocInit EXCEPT !.pkt = p,
                                                         !.username = username,
                                                         !.password = password,
                                                         !.acc_id = userDb[username].acc_id]]
                            /\ account_id' =
                                   [account_id EXCEPT ![c] = userDb[username].acc_id]
                            /\ ev' = StartEv("auth", c, p)
                  ELSE /\ pc' = [pc EXCEPT ![c] = "save_read"]
                       /\ loc' = [loc EXCEPT ![c] =
                                    [LocInit EXCEPT !.pkt = p,
                                                    !.username = username,
                                                    !.password = password]]
                       /\ ev' = StartEv("auth", c, p)
                       /\ UNCHANGED account_id
        /\ UNCHANGED <<userDb, nextId, users, free, used, rooms, heap, sock, now,
                       mode, frameVars, lastDeleted>>

\* save_user, line 79: acc_id = str(next_id)
SaveUserRead(c) ==
    /\ pc[c] = "save_read"
    /\ CanStep(c)
    /\ loc' = [loc EXCEPT ![c].acc_id = nextId]
    /\ pc' = [pc EXCEPT ![c] = "save_write"]
    /\ UNCHANGED <<userDb, nextId, users, free, used, rooms, heap, sock,
                   account_id, npkts, now, mode, frameVars, ev, lastDeleted, sent>>

\* save_user, lines 80-85, then the login ack and self.account_id (420-425)
SaveUserWrite(c) ==
    /\ pc[c] = "save_write"
    /\ CanStep(c)
    /\ nextId' = nextId + 1
    /\ userDb' = [u \in DOMAIN userDb \cup {loc[c].username} |->
                    IF u = loc[c].username
                    THEN [hash |-> md5_hash(loc[c].password),
                          acc_id |-> loc[c].acc_id]
                    ELSE userDb[u]]
    /\ sent' = Sent(sent, <<Att(c, login_ack(loc[c].acc_id, loc[c].username,
                                             loc[c].password), FALSE)>>)
    /\ IF sock[c] = "closed"
       THEN /\ Raise(c)
            /\ UNCHANGED account_id
       ELSE /\ pc' = [pc EXCEPT ![c] = "alloc_min"]
            /\ account_id' = [account_id EXCEPT ![c] = loc[c].acc_id]
            /\ UNCHANGED <<loc, ev>>
    /\ UNCHANGED <<users, free, used, rooms, heap, sock, npkts, now, mode, frameVars,
                   lastDeleted>>

\* SlotAllocator.allocate, line 41: slot = min(self.free)
AllocMin(c) ==
    /\ pc[c] = "alloc_min"
    /\ CanStep(c)
    /\ IF free = {}
       THEN Raise(c)
       ELSE /\ loc' = [loc EXCEPT ![c].slot = MinOf(free)]
            /\ pc' = [pc EXCEPT ![c] = "alloc_remove"]
            /\ UNCHANGED ev
    /\ UNCHANGED <<userDb, nextId, users, free, used, rooms, heap, sock,
                   account_id, npkts, now, mode, frameVars, lastDeleted, sent>>

\* SlotAllocator.allocate, line 42: self.free.remove(slot)
AllocRemove(c) ==
    /\ pc[c] = "alloc_remove"
    /\ CanStep(c)
    /\ IF loc[c].slot \notin free
       THEN /\ Raise(c)
            /\ UNCHANGED free
       ELSE /\ free' = free \ {loc[c].slot}
            /\ pc' = [pc EXCEPT ![c] = "alloc_used"]
            /\ UNCHANGED <<loc, ev>>
    /\ UNCHANGED <<userDb, nextId, users, used, rooms, heap, sock, account_id,
                   npkts, now, mode, frameVars, lastDeleted, sent>>

\* SlotAllocator.allocate, lines 43-44: self.used[account_id] = slot
AllocUsed(c) ==
    /\ pc[c] = "alloc_used"
    /\ CanStep(c)
    /\ used' = [a \in DOMAIN used \cup {account_id[c]} |->
                  IF a = account_id[c] THEN loc[c].slot ELSE used[a]]
    /\ pc' = [pc EXCEPT ![c] = "auth_users"]
    /\ UNCHANGED <<userDb, nextId, users, free, rooms, heap, sock, account_id,
                   loc, npkts, now, mode, frameVars, ev, lastDeleted, sent>>

\* lines 427-436: USERS[acc_id] = {...}, then the identity packet
AuthUsers(c) ==
    /\ pc[c] = "auth_users"
    /\ CanStep(c)
    /\ users' = [a \in DOMAIN users \cup {account_id[c]} |->
                   IF a = account_id[c]
                   THEN [username |-> loc[c].username, socket |-> c,
                         room |-> NONE, slot |-> loc[c].slot,
                         last_state |-> NONE]
                   ELSE users[a]]
    /\ sent' = Sent(sent, <<Att(c, auth_packet(loc[c].slot, loc[c].username),
                                FALSE),
                            Att(c, Msg0p, FALSE)>>)
    /\ Finish(c)
    /\ UNCHANGED <<userDb, nextId, free, used, rooms, heap, sock, account_id,
                   npkts, now, mode, frameVars, lastDeleted>>

\* ----------------------------------------------------- leave_current_room
\* where leave_current_room returns to: JOIN ROOM, CREATE ROOM or remove_user
AfterLeave(c) ==
    CASE loc[c].ret = "join" -> "join_check"
      [] loc[c].ret = "create" -> "create_make"
      [] OTHER -> "remove_release"

\* the socket of a thread that an exception ends is closed by the server
SockAfterRaise(c) ==
    IF loc[c].ret = "remove" THEN [sock EXCEPT ![c] = "closed"] ELSE sock

clear_room_Keep(us, acc) == us

\* line 339: user["room"] = None
clear_room(us, acc) == [us EXCEPT ![acc].room = NONE]

\* lines 330-342: the early returns, room = rooms.get(...), user["room"] = None
LeaveEnter(c) ==
    /\ pc[c] = "leave_enter"
    /\ CanStep(c)
    /\ LET acc == account_id[c]
           room_name == users[acc].room
           room == IF room_name \in DOMAIN rooms THEN rooms[room_name] ELSE NoObj
       IN  IF acc \notin DOMAIN users
           THEN /\ pc' = [pc EXCEPT ![c] = AfterLeave(c)]
                /\ UNCHANGED <<users, loc>>
           ELSE IF Falsy(room_name)
           THEN /\ pc' = [pc EXCEPT ![c] = AfterLeave(c)]
                /\ UNCHANGED <<users, loc>>
           ELSE /\ users' = clear_room(users, acc)
                /\ IF room = NoObj
                   THEN /\ pc' = [pc EXCEPT ![c] = AfterLeave(c)]
                        /\ UNCHANGED loc
                   ELSE /\ pc' = [pc EXCEPT ![c] = "leave_remove"]
                        /\ loc' = [loc EXCEPT ![c].old = room_name,
                                              ![c].room = room]
    /\ UNCHANGED <<userDb, nextId, free, used, rooms, heap, sock, account_id,
                   npkts, now, mode, frameVars, ev, lastDeleted, sent>>

LobbyBroadcast_Nobody(us, rms, h) == <<>>

\* broadcast_room_list_to_lobby: the room list to every session of the lobby
LobbyBroadcast(us, rms, h) ==
    LET accs == {a \in DOMAIN us : us[a].room = Lobby}
        order == AnOrder(accs)
    IN  [i \in 1..Cardinality(accs) |->
            Att(us[order[i]].socket, build_room_list_bytes(rms, h), TRUE)]

\* lines 344-355: leave the member set, then the departed notice to each peer
\* (wire_id(account_id) raises KeyError once USERS has lost the account)
LeaveRemove(c) ==
    /\ pc[c] = "leave_remove"
    /\ CanStep(c)
    /\ LET acc == account_id[c]
           room == loc[c].room
           peers == heap[room].players \ {acc}
           h2 == [heap EXCEPT ![room].players = peers]
           told == peers \cap DOMAIN users
           order == AnOrder(told)
       IN  IF acc \notin DOMAIN users /\ peers \cap DOMAIN users # {}
           THEN /\ Raise(c)
                /\ sock' = SockAfterRaise(c)
                /\ heap' = Gc(h2, rooms, loc')
                /\ UNCHANGED sent
           ELSE /\ pc' = [pc EXCEPT ![c] = "leave_cleanup"]
                /\ heap' = h2
                /\ sent' = Sent(sent,
                                [i \in 1..Cardinality(told) |->
                                    Att(users[order[i]].socket,
                                        MsgD(wire_id(acc)), TRUE)])
                /\ UNCHANGED <<loc, ev, sock>>
    /\ UNCHANGED <<userDb, nextId, users, free, used, rooms, account_id, npkts,
                   now, mode, frameVars, lastDeleted>>

ShouldDelete_LobbyOnly(room_name, players) == room_name = Lobby /\ players = {}

\* line 358: if room_name != "_" and not room["players"]
ShouldDelete(room_name, players) == room_name # Lobby /\ players = {}

\* lines 357-361: cleanup empty non-lobby room (del raises KeyError when the
\* name has left the registry), then the room list to the lobby
LeaveCleanup(c) ==
    /\ pc[c] = "leave_cleanup"
    /\ CanStep(c)
    /\ LET room_name == loc[c].old
           room == loc[c].room
       IN  IF ShouldDelete(room_name, heap[room].players)
           THEN IF room_name \in DOMAIN rooms
                THEN /\ rooms' = [n \in DOMAIN rooms \ {room_name} |-> rooms[n]]
                     /\ sent' = Sent(sent, LobbyBroadcast(users, rooms', heap))
                     /\ lastDeleted' = room_name
                     /\ pc' = [pc EXCEPT ![c] = AfterLeave(c)]
                     /\ loc' = [loc EXCEPT ![c].old = NONE, ![c].room = NoObj]
                     /\ UNCHANGED <<ev, sock>>
                ELSE /\ Raise(c)
                     /\ sock' = SockAfterRaise(c)
                     /\ UNCHANGED <<rooms, lastDeleted, sent>>
           ELSE /\ pc' = [pc EXCEPT ![c] = AfterLeave(c)]
                /\ loc' = [loc EXCEPT ![c].old = NONE, ![c].room = NoObj]
                /\ UNCHANGED <<rooms, lastDeleted, ev, sock, sent>>
    /\ heap' = Gc(heap, rooms', loc')
    /\ UNCHANGED <<userDb, nextId, users, free, used, account_id, npkts, now,
                   mode, frameVars>>

\* ------------------------------------------------------------ JOIN ROOM (03)
\* lines 444-460: the departed notice to the old room's peers, then the leave;
\* USERS[peer_acc] raises KeyError for a member that USERS has lost, and the
\* packet ends there
RecvJoin(c) ==
    \E p \in Packets :
        /\ CanRecv(c, p)
        /\ Kind(p, Authed(c)) = "join"
        /\ npkts' = npkts + 1
        /\ LET old_room == users[account_id[c]].room
               peers == IF Falsy(old_room) \/ old_room \notin DOMAIN rooms
                        THEN {}
                        ELSE heap[rooms[old_room]].players \ {account_id[c]}
           IN  /\ \E order \in Orders(peers) :
                      sent' = Sent(SentAtStart,
                                   [i \in 1..Cardinality(peers) |->
                                       IF order[i] \in DOMAIN users
                                       THEN Att(users[order[i]].socket,
                                                MsgD(wire_id(account_id[c])),
                                                TRUE)
                                       ELSE KeyErr])
               /\ IF peers \subseteq DOMAIN users
                  THEN /\ pc' = [pc EXCEPT ![c] = "leave_enter"]
                       /\ loc' = [loc EXCEPT ![c] =
                                    [LocInit EXCEPT !.pkt = p, !.ret = "join"]]
                       /\ ev' = StartEv("join", c, p)
                  ELSE /\ pc' = pc
                       /\ loc' = loc
                       /\ ev' = [StartEv("join", c, p) EXCEPT !.done = serial]
        /\ UNCHANGED <<userDb, nextId, users, free, used, rooms, heap, sock,
                       account_id, now, mode, frameVars, lastDeleted>>

\* lines 462-468: the missing-room check, room = self.server.rooms[room_name]
JoinCheck(c) ==
    /\ pc[c] = "join_check"
    /\ CanStep(c)
    /\ LET room_name == normalize_room_name(Drop(loc[c].pkt, 2))
       IN  IF account_id[c] \notin DOMAIN users
           THEN Raise(c)
           ELSE IF room_name \notin DOMAIN rooms
           THEN Finish(c)
           ELSE /\ pc' = [pc EXCEPT ![c] = "join_add"]
                /\ loc' = [loc EXCEPT ![c].room = rooms[room_name]]
                /\ UNCHANGED ev
    /\ UNCHANGED <<userDb, nextId, users, free, used, rooms, heap, sock,
                   account_id, npkts, now, mode, frameVars, lastDeleted, sent>>

\* lines 469-470: join the member set, set the back-reference (KeyError when
\* USERS has lost the account)
JoinAdd(c) ==
    /\ pc[c] = "join_add"
    /\ CanStep(c)
    /\ LET acc == account_id[c]
           room_name == normalize_room_name(Drop(loc[c].pkt, 2))
           h2 == [heap EXCEPT ![loc[c].room].players = @ \cup {acc}]
       IN  IF acc \in DOMAIN users
           THEN /\ users' = [users EXCEPT ![acc].room = room_name]
                /\ pc' = [pc EXCEPT ![c] = "join_notify"]
                /\ heap' = h2
                /\ UNCHANGED <<loc, ev>>
           ELSE /\ Raise(c)
                /\ heap' = Gc(h2, rooms, loc')
                /\ UNCHANGED users
    /\ UNCHANGED <<userDb, nextId, free, used, rooms, sock, account_id, npkts,
                   now, mode, frameVars, lastDeleted, sent>>

\* f"{opcode}{wire_id}{payload}": the sender's wire id after the opcode
Inject(packet, w) == <<Head(packet)>> \o w \o Tail(packet)

\* lines 472-497: the joiner's own handshake, then "sync peers"
JoinSync(c, room_name, peers) ==
    LET acc == account_id[c]
        PerPeer(peer) ==
            IF peer \notin DOMAIN users
            THEN <<KeyErr>>
            ELSE <<Att(c, MsgC(wire_id(peer)), FALSE)>>
                 \o (IF room_name = Lobby /\ users[peer].room = Lobby
                     THEN <<Att(c, lobby_user_packet(peer), FALSE)>>
                     ELSE <<>>)
                 \o (IF room_name = Lobby
                     THEN <<Att(users[peer].socket, MsgC(wire_id(acc)), TRUE),
                            Att(users[peer].socket, lobby_user_packet(acc),
                                TRUE)>>
                     ELSE <<>>)
    IN  IF acc \notin DOMAIN users
        THEN <<KeyErr>>
        ELSE <<Att(c, MsgC(wire_id(acc)), FALSE),
               Att(c, game_user_packet(acc), FALSE),
               Att(c, Msg6(wire_id(acc)), FALSE)>>
             \o Flatten([i \in 1..Len(peers) |-> PerPeer(peers[i])])

\* lines 514-590: the timer to every member, the settings and R/G/I to the
\* joiner, then the loop "AFTER all C packets" with its four inner loops
JoinGame(c, room, all, peers) ==
    LET acc == account_id[c]
        me == wire_id(acc)
        Timer(a) ==
            IF a \in DOMAIN users
            THEN Att(users[a].socket, MsgP(Remaining(room.round_start)), TRUE)
            ELSE KeyErr
        PeerState(q) ==
            IF q \in DOMAIN users /\ users[q].last_state # NONE
            THEN <<Att(c, Inject(users[q].last_state, wire_id(q)), FALSE)>>
            ELSE <<>>
        MyState(q) ==
            IF users[acc].last_state = NONE
            THEN <<>>
            ELSE IF q \in DOMAIN users
            THEN <<Att(users[q].socket, Inject(users[acc].last_state, me),
                       TRUE)>>
            ELSE <<KeyErr>>
        Ready(q) ==
            IF q \in DOMAIN users
            THEN Att(c, Msg6(wire_id(q)), FALSE)
            ELSE KeyErr
        MeReady(q) ==
            IF q \in DOMAIN users
            THEN Att(users[q].socket, Msg6(me), FALSE)
            ELSE KeyErr
        PerPeer(peer) ==
            IF peer \notin DOMAIN users
            THEN <<KeyErr>>
            ELSE <<Att(c, game_user_packet(peer), FALSE),
                   Att(users[peer].socket, MsgC(me), FALSE),
                   Att(users[peer].socket, game_user_packet(acc), FALSE)>>
                 \o Flatten([i \in 1..Len(peers) |-> PeerState(peers[i])])
                 \o Flatten([i \in 1..Len(peers) |-> MyState(peers[i])])
                 \o [i \in 1..Len(peers) |-> Ready(peers[i])]
                 \o [i \in 1..Len(peers) |-> MeReady(peers[i])]
    IN  [i \in 1..Len(all) |-> Timer(all[i])]
        \o <<Att(c, MsgS(room.settings_string), FALSE),
             Att(c, MsgR(me), FALSE),
             Att(c, MsgG(me), FALSE),
             Att(c, MsgI(me), FALSE)>>
        \o Flatten([i \in 1..Len(peers) |-> PerPeer(peers[i])])

\* lines 472-590: announce the join; a game room's round is stamped (507-508)
\* when no send before it raised
JoinNotify(c) ==
    /\ pc[c] = "join_notify"
    /\ CanStep(c)
    /\ Finish(c)
    /\ \E all \in Orders(heap[loc[c].room].players \cup {account_id[c]}) :
        LET acc == account_id[c]
            room_name == normalize_room_name(Drop(loc[c].pkt, 2))
            room == loc[c].room
            peers == SelectSeq(all, LAMBDA a : a # acc)
            sync == JoinSync(c, room_name, peers)
            stamped == heap[room].round_start = NoTime
            h2 == [heap EXCEPT ![room].round_start = IF stamped THEN now ELSE @]
            att == IF Raises(sync)
                   THEN sync
                   ELSE IF room_name = Lobby
                   THEN sync \o <<Att(c, build_room_list_bytes(rooms, heap),
                                      FALSE)>>
                   ELSE sync \o JoinGame(c, h2[room], all, peers)
        IN  /\ sent' = Sent(sent, att)
            /\ heap' = IF Raises(sync) \/ room_name = Lobby
                       THEN Gc(heap, rooms, loc')
                       ELSE Gc(h2, rooms, loc')
    /\ UNCHANGED <<userDb, nextId, users, free, used, rooms, sock, account_id,
                   npkts, now, mode, frameVars, lastDeleted>>

\* ---------------------------------------------------------- CREATE ROOM (02)
\* lines 619-620
RecvCreate(c) ==
    \E p \in Packets :
        /\ CanRecv(c, p)
        /\ Kind(p, Authed(c)) = "create"
        /\ npkts' = npkts + 1
        /\ pc' = [pc EXCEPT ![c] = "leave_enter"]
        /\ loc' = [loc EXCEPT ![c] =
                     [LocInit EXCEPT !.pkt = p, !.ret = "create"]]
        /\ ev' = StartEv("create", c, p)
        /\ sent' = Sent(SentAtStart, <<>>)
        /\ UNCHANGED <<userDb, nextId, users, free, used, rooms, heap, sock,
                       account_id, now, mode, frameVars, lastDeleted>>

\* lines 622-631: the room name and the settings of a create packet
CreateName(packet) ==
    normalize_room_name(SplitFirst(Drop(Drop(packet, 2), 3), SEMI)[1])

CreateSettings(packet) == Strip(SplitFirst(Drop(Drop(packet, 2), 3), SEMI)[2])

\* lines 622-660: parse, self.server.rooms[room_name] = {...}, back-reference
CreateMake(c) ==
    /\ pc[c] = "create_make"
    /\ CanStep(c)
    /\ LET acc == account_id[c]
           payload == Drop(loc[c].pkt, 2)
           rest == Drop(payload, 3)
           room_name == CreateName(loc[c].pkt)
           obj == NewObj
           me == wire_id(acc)
           hello == <<Att(c, MsgC(me), FALSE),
                      Att(c, MsgP(RoundLength), FALSE),
                      Att(c, MsgS(CreateSettings(loc[c].pkt)), FALSE),
                      Att(c, MsgR(me), FALSE),
                      Att(c, MsgG(me), FALSE),
                      Att(c, MsgI(me), FALSE),
                      Att(c, game_user_packet(acc), FALSE)>>
       IN  IF ~Contains(payload, SEMI)
           THEN /\ Finish(c)
                /\ UNCHANGED <<rooms, heap, users, sent>>
           ELSE IF ~Contains(rest, SEMI)
           THEN \* room_part, settings = rest.split(";", 1) cannot unpack
                /\ Raise(c)
                /\ UNCHANGED <<rooms, heap, users, sent>>
           ELSE /\ rooms' = [n \in DOMAIN rooms \cup {room_name} |->
                               IF n = room_name THEN obj ELSE rooms[n]]
                /\ users' = IF acc \in DOMAIN users
                            THEN [users EXCEPT ![acc].room = room_name]
                            ELSE users
                /\ Finish(c)
                /\ heap' = Gc([o \in DOMAIN heap \cup {obj} |->
                                 IF o = obj
                                 THEN [settings_string |->
                                           CreateSettings(loc[c].pkt),
                                       players |-> {acc},
                                       round_start |-> now]
                                 ELSE heap[o]],
                              rooms', loc')
                /\ sent' = IF acc \in DOMAIN users
                           THEN Sent(sent, hello \o LobbyBroadcast(users', rooms',
                                                                   heap'))
                           ELSE sent
    /\ UNCHANGED <<userDb, nextId, free, used, sock, account_id, npkts, now,
                   mode, frameVars, lastDeleted>>

\* ------------------------------------------------- the other packet opcodes
\* relay_state_to_room (266-294): every failure of a send is swallowed
relay_state_to_room(c, room_name, packet, order) ==
    IF Falsy(room_name) \/ room_name \notin DOMAIN rooms
    THEN <<>>
    ELSE LET peers == SelectSeq(order, LAMBDA a : a # account_id[c])
         IN  Flatten([i \in 1..Len(peers) |->
                 IF peers[i] \in DOMAIN users
                 THEN <<Att(users[peers[i]].socket,
                            Inject(packet, wire_id(account_id[c])), TRUE)>>
                 ELSE <<>>])

\* relay_raw_to_room (252-264), relay_chat9_to_room (297-311): out to every
\* member, the sender too when include_self
ToRoom(c, room_name, out, include_self, order) ==
    IF Falsy(room_name) \/ room_name \notin DOMAIN rooms
    THEN <<>>
    ELSE LET peers == SelectSeq(order,
                                LAMBDA a : include_self \/ a # account_id[c])
         IN  [i \in 1..Len(peers) |->
                 IF peers[i] \in DOMAIN users
                 THEN Att(users[peers[i]].socket, out, TRUE)
                 ELSE KeyErr]

\* the room whose members a relay goes to
RelayRoom(c) ==
    IF account_id[c] \notin DOMAIN users
    THEN {}
    ELSE LET room_name == users[account_id[c]].room
         IN  IF Falsy(room_name) \/ room_name \notin DOMAIN rooms
             THEN {}
             ELSE heap[rooms[room_name]].players

PmTargets_Anyone(packet) == IF Len(packet) < 5 THEN {} ELSE DOMAIN users

\* lines 746-764: the first session of USERS whose wire id is the target
PmTargets(packet) ==
    IF Len(packet) < 5
    THEN {}
    ELSE {a \in DOMAIN users : wire_id(a) = SubSeq(packet, 3, 5)}

\* what the handlers that change no room write, by the branch of the if/elif
\* chain: lines 382-390, 593-616, 664-764; a handler that looks up the
\* sender in USERS and does not find it raises KeyError before it sends
OtherAtt(c, p, kind, order, target) ==
    LET acc == account_id[c]
        room_name == users[acc].room
        me == wire_id(acc)
        name == normalize_room_name(Drop(p, 2))
        left == Remaining(heap[rooms[room_name]].round_start)
        others == SelectSeq(order, LAMBDA a : a # acc)
    IN  IF kind = "policy"
        THEN <<Att(c, <<"<cross-domain-policy>">>, FALSE)>>
        ELSE IF kind = "list"
        THEN <<Att(c, build_room_list_bytes(rooms, heap), FALSE)>>
        ELSE IF kind = "info"
        THEN IF name \notin DOMAIN rooms \/ name = Lobby
             THEN <<>>
             ELSE <<Att(c, <<"0", "4", "1", "0", "A">>
                           \o Fmt2(Cardinality(heap[rooms[name]].players))
                           \o <<ToString(Remaining(
                                   heap[rooms[name]].round_start))>>,
                        FALSE)>>
        ELSE IF acc \notin DOMAIN users
        THEN <<>>
        ELSE CASE kind = "ping" ->
                    <<Att(c, <<"M">> \o me \o <<"9", "?">> \o Drop(p, 2),
                          FALSE)>>
               [] kind = "relay" -> relay_state_to_room(c, room_name, p, order)
               [] kind = "raw" -> ToRoom(c, room_name, p, FALSE, order)
               [] kind = "chat" ->
                    ToRoom(c, room_name, <<"M">> \o me \o p, TRUE, order)
               [] kind = "custom" ->
                    Flatten([i \in 1..Len(others) |->
                        IF others[i] \in DOMAIN users
                        THEN <<Att(users[others[i]].socket, MsgC(me), TRUE),
                               Att(users[others[i]].socket,
                                   game_user_packet(acc), TRUE)>>
                        ELSE <<KeyErr>>])
               [] kind = "timer" ->
                    IF Falsy(room_name) \/ room_name \notin DOMAIN rooms
                    THEN <<>>
                    ELSE <<Att(c, MsgP(left), FALSE)>>
                         \o ToRoom(c, room_name, MsgP(left), FALSE, order)
               [] kind = "pm" ->
                    IF Len(p) < 5 \/ target = NoAcc
                    THEN <<>>
                    ELSE <<Att(users[target].socket,
                               <<"M">> \o me \o Drop(p, 5), TRUE)>>
               [] OTHER -> <<>>

cache_last_state_setdefault(us, acc, packet) ==
    [a \in DOMAIN us \cup {acc} |->
        IF a = acc
        THEN [username |-> <<>>, socket |-> 0, room |-> NONE, slot |-> 0,
              last_state |-> packet]
        ELSE us[a]]

\* line 393, USERS[self.account_id]["last_state"] = packet: KeyError, and
\* USERS as it was, for an account that is not in USERS
cache_last_state(us, acc, packet) ==
    IF acc \in DOMAIN us THEN [us EXCEPT ![acc].last_state = packet] ELSE us

\* a packet ignored before authentication (439-441), the cached last state
\* (392-393: KeyError without a directory entry), and the handlers that only
\* send: the policy file, the room list, the relays, the direct message, ...
RecvOther(c) ==
    \E p \in Packets :
        /\ CanRecv(c, p)
        /\ Kind(p, Authed(c)) \notin {"auth", "join", "create"}
        /\ npkts' = npkts + 1
        /\ ev' = [StartEv(Kind(p, Authed(c)), c, p) EXCEPT !.done = serial]
        /\ IF Kind(p, Authed(c)) = "state"
           THEN users' = cache_last_state(users, account_id[c], p)
           ELSE UNCHANGED users
        /\ IF Kind(p, Authed(c)) \in {"policy", "state", "ignored", "unhandled"}
           THEN sent' = Sent(SentAtStart,
                             OtherAtt(c, p, Kind(p, Authed(c)), <<>>, NoAcc))
           ELSE \E order \in Orders(RelayRoom(c)) :
                \E target \in (IF Kind(p, Authed(c)) = "pm"
                                  /\ PmTargets(p) # {}
                               THEN PmTargets(p)
                               ELSE {NoAcc}) :
                    sent' = Sent(SentAtStart,
                                 OtherAtt(c, p, Kind(p, Authed(c)), order,
                                          target))
        /\ UNCHANGED <<userDb, nextId, free, used, rooms, heap, sock, pc,
                       account_id, loc, now, mode, frameVars, lastDeleted>>

\* ------------------------------------------------------ the network
\* the client of a session goes away: the socket takes no more writes, and
\* the thread finds out at its next recv
Break(c) ==
    /\ pc[c] = "idle"
    /\ CanStep(c)
    /\ npkts < Budget
    /\ sock[c] = "open"
    /\ Authed(c)
    /\ Settled
    /\ npkts' = npkts + 1
    /\ sock' = [sock EXCEPT ![c] = "closed"]
    /\ ev' = [StartEv("break", c, <<>>) EXCEPT !.done = serial]
    /\ sent' = Sent(SentAtStart, <<>>)
    /\ UNCHANGED <<userDb, nextId, users, free, used, rooms, heap, pc,
                   account_id, loc, now, mode, frameVars, lastDeleted>>

\* ------------------------------------------------- disconnect / remove_user
\* lines 780-781 and 801-805: recv returns no data or raises, then finally;
\* remove_user's lines 363-367 for an account USERS holds
Close(c) ==
    /\ pc[c] = "idle"
    /\ CanStep(c)
    /\ WellBehaved => sock[c] = "closed"
    /\ sent' = Sent(SentAtStart, <<>>)
    /\ IF Authed(c)
       THEN /\ pc' = [pc EXCEPT ![c] = "leave_enter"]
            /\ loc' = [loc EXCEPT ![c] =
                         [LocInit EXCEPT !.ret = "remove",
                                         !.usock = users[account_id[c]].socket]]
            /\ ev' = StartEv("close", c, <<>>)
            /\ UNCHANGED sock
       ELSE /\ pc' = [pc EXCEPT ![c] = "free"]
            /\ sock' = [sock EXCEPT ![c] = "closed"]
            /\ ev' = [StartEv("close", c, <<>>) EXCEPT !.done = serial]
            /\ UNCHANGED loc
    /\ UNCHANGED <<userDb, nextId, users, free, used, rooms, heap, account_id,
                   npkts, now, mode, frameVars, lastDeleted>>

\* lines 368-372 with SlotAllocator.release (46-49)
RemoveRelease(c) ==
    /\ pc[c] = "remove_release"
    /\ CanStep(c)
    /\ LET acc == account_id[c]
       IN  /\ sock' = [sock EXCEPT ![loc[c].usock] = "closed"]
           /\ IF acc \in DOMAIN used
              THEN /\ free' = free \cup {used[acc]}
                   /\ used' = [a \in DOMAIN used \ {acc} |-> used[a]]
              ELSE UNCHANGED <<free, used>>
    /\ pc' = [pc EXCEPT ![c] = "remove_pop"]
    /\ UNCHANGED <<userDb, nextId, users, rooms, heap, account_id, loc, npkts,
                   now, mode, frameVars, ev, lastDeleted, sent>>

\* line 373: USERS.pop(account_id, None); handle() returns
RemovePop(c) ==
    /\ pc[c] = "remove_pop"
    /\ CanStep(c)
    /\ users' = [a \in DOMAIN users \ {account_id[c]} |-> users[a]]
    /\ pc' = [pc EXCEPT ![c] = "free"]
    /\ sock' = [sock EXCEPT ![c] = "closed"]
    /\ loc' = [loc EXCEPT ![c] = LocInit]
    /\ ev' = EndEv
    /\ UNCHANGED <<userDb, nextId, free, used, rooms, heap, account_id, npkts,
                   now, mode, frameVars, lastDeleted, sent>>

\* ------------------------------------------------------------------- specs
Step(c) ==
    \/ Accept(c)
    \/ RecvAuth(c)
    \/ SaveUserRead(c)
    \/ SaveUserWrite(c)
    \/ AllocMin(c)
    \/ AllocRemove(c)
    \/ AllocUsed(c)
    \/ AuthUsers(c)
    \/ RecvJoin(c)
    \/ RecvCreate(c)
    \/ LeaveEnter(c)
    \/ LeaveRemove(c)
    \/ LeaveCleanup(c)
    \/ JoinCheck(c)
    \/ JoinAdd(c)
    \/ JoinNotify(c)
    \/ CreateMake(c)
    \/ RecvOther(c)
    \/ Break(c)
    \/ Close(c)
    \/ RemoveRelease(c)
    \/ RemovePop(c)

Next == \E c \in Conns : Step(c)

Spec == Init /\ [][Next]_vars

SpecSerial == InitSerial /\ [][Next]_vars

SpecAuth == InitAuth /\ [][Next]_vars

SpecRelay == InitRelay /\ [][Next]_vars

SpecRace == InitRace /\ [][Next]_vars

SpecList == InitList /\ [][Next]_vars

SpecReplay == InitReplay /\ [][Next]_vars

\* -------------------------------------------------- handle(): the read loop
\* One connection's bytes, as handle() reads them: recv returns the bytes
\* written so far in pieces of any size, each piece is decoded on its own
\* and appended to buf, and buf is split at the terminator.  Bytes and
\* characters are numbers: 0 is the terminator "\x00", 57 is "9", and
\* 195 169 is the UTF-8 encoding of U+00E9 (233).
MaxStream == 4

Bytes == {0, 57, 195, 169}

RECURSIVE SeqsUpTo(_, _)
SeqsUpTo(S, n) ==
    IF n = 0 THEN {<<>>}
    ELSE LET shorter == SeqsUpTo(S, n - 1)
         IN  shorter \cup {Append(q, x) : q \in shorter, x \in S}

Streams == SeqsUpTo(Bytes, MaxStream)

\* data.decode("utf-8", errors="ignore") for one- and two-byte sequences:
\* a byte below 128 is its character; a lead byte 0xC2..0xDF followed by a
\* continuation byte 0x80..0xBF is one character; any other byte, and a
\* lead byte that ends the data, is dropped
RECURSIVE decode(_)
decode(data) ==
    IF data = <<>> THEN <<>>
    ELSE IF Head(data) < 128 THEN <<Head(data)>> \o decode(Tail(data))
    ELSE IF /\ Head(data) \in 194..223
            /\ Len(data) >= 2
            /\ data[2] \in 128..191
         THEN <<(Head(data) - 192) * 64 + (data[2] - 128)>>
              \o decode(Drop(data, 2))
    ELSE decode(Tail(data))

serverVars == <<userDb, nextId, users, free, used, rooms, heap, sock, pc,
                account_id, loc, npkts, now, mode, ev, lastDeleted, sent>>

InitFrame ==
    /\ InitServer
    /\ now = 0
    /\ mode = "frame"
    /\ wire \in Streams
    /\ nread = 0
    /\ buf = <<>>
    /\ dispatched = <<>>
    /\ fpc = "recv"

\* data = self.request.recv(4096); buf += data.decode(...): recv returns at
\* least one and at most all of the bytes that have not been read
FrameRecv ==
    /\ fpc = "recv"
    /\ \E n \in 1..(Len(wire) - nread) :
        /\ buf' = buf \o decode(SubSeq(wire, nread + 1, nread + n))
        /\ nread' = nread + n
    /\ fpc' = "split"
    /\ UNCHANGED <<wire, dispatched, serverVars>>

\* one turn of  while "\x00" in buf: packet, buf = buf.split("\x00", 1);
\* an empty packet is skipped, any other is passed to handle_packet
FrameSplit ==
    /\ fpc = "split"
    /\ IF Contains(buf, 0)
       THEN LET parts == SplitFirst(buf, 0)
            IN  /\ buf' = parts[2]
                /\ dispatched' = IF parts[1] = <<>> THEN dispatched
                                 ELSE Append(dispatched, parts[1])
                /\ fpc' = fpc
       ELSE /\ fpc' = "recv"
            /\ UNCHANGED <<buf, dispatched>>
    /\ UNCHANGED <<wire, nread, serverVars>>

\* the client has closed: recv returns b"" and the loop breaks
FrameEof ==
    /\ fpc = "recv"
    /\ nread = Len(wire)
    /\ fpc' = "done"
    /\ UNCHANGED <<wire, nread, buf, dispatched, serverVars>>

SpecFrame ==
    InitFrame /\ [][FrameRecv \/ FrameSplit \/ FrameEof]_vars

\* ------------------------------------------------- SlotAllocator on its own
\* Any sequence of SLOTS.allocate and SLOTS.release calls, one call at a
\* time.  ev records the call just made: its account, what it returned
\* (0: nothing, or it raised), free and used before it, the call before
\* it, double: some allocate so far was for an account that held a slot, and
\* gapped: some release so far freed a slot below another slot in use.
SlotAccounts == 1..MaxSlot

InitSlots ==
    /\ InitCommon
    /\ mode = "slots"

SlotEv(op, a, ret) ==
    [op |-> op, acc |-> a, ret |-> ret, free |-> free, used |-> used,
     prev |-> [op |-> ev.op, acc |-> ev.acc, used |-> ev.used],
     double |-> \/ ev.op # "none" /\ ev.double
                \/ op = "allocate" /\ a \in DOMAIN used,
     gapped |-> \/ ev.op # "none" /\ ev.gapped
                \/ /\ op = "release"
                   /\ a \in DOMAIN used
                   /\ \E b \in DOMAIN used : used[b] > used[a]]

allocate_slot_Max(fr) == CHOOSE x \in fr : \A y \in fr : y <= x

\* line 41: slot = min(self.free)
allocate_slot(fr) == MinOf(fr)

\* SlotAllocator.allocate, lines 40-44; min() of an empty set raises
\* ValueError before anything is changed
allocate(a) ==
    /\ IF free = {}
       THEN /\ ev' = SlotEv("allocate", a, 0)
            /\ UNCHANGED <<free, used>>
       ELSE LET slot == allocate_slot(free)
            IN  /\ free' = free \ {slot}
                /\ used' = [b \in DOMAIN used \cup {a} |->
                              IF b = a THEN slot ELSE used[b]]
                /\ ev' = SlotEv("allocate", a, slot)
    /\ UNCHANGED <<userDb, nextId, users, rooms, heap, sock, pc, account_id,
                   loc, npkts, now, mode, frameVars, lastDeleted, sent>>

release_NoFree(a) ==
    /\ used' = [b \in DOMAIN used \ {a} |-> used[b]]
    /\ ev' = SlotEv("release", a, 0)
    /\ UNCHANGED <<userDb, nextId, users, free, rooms, heap, sock, pc,
                   account_id, loc, npkts, now, mode, frameVars, lastDeleted,
                   sent>>

\* SlotAllocator.release, lines 46-49
release(a) ==
    /\ IF a \in DOMAIN used
       THEN /\ free' = free \cup {used[a]}
            /\ used' = [b \in DOMAIN used \ {a} |-> used[b]]
       ELSE UNCHANGED <<free, used>>
    /\ ev' = SlotEv("release", a, 0)
    /\ UNCHANGED <<userDb, nextId, users, rooms, heap, sock, pc, account_id,
                   loc, npkts, now, mode, frameVars, lastDeleted, sent>>

SpecSlots ==
    InitSlots /\ [][\E a \in SlotAccounts : allocate(a) \/ release(a)]_vars

\* ------------------------------------------------------- the round timer
\* The clock and the rooms' round_start on their own: the clock advances,
\* the room r is created (again), a session joins it, and remaining times
\* are read, of r or of the lobby.  ev records the last report: the room,
\* the value, the clock and the room's round_start when it was computed,
\* and last: for each room, the value reported before since the room was
\* created (-1: none).
TimerRoom == <<"r">>

\* a fraction of a second, a second, a whole round
ClockSteps == {1, TicksPerSecond, RoundLength * TicksPerSecond}

InitTimer ==
    /\ InitServer
    /\ now = 1
    /\ mode = "timer"
    /\ wire = <<>>
    /\ nread = 0
    /\ buf = <<>>
    /\ dispatched = <<>>
    /\ fpc = "recv"

TimerEv(op, n, value, start) ==
    [op |-> op, room |-> n, value |-> value, at |-> now, start |-> start,
     before |-> IF ev.op = "none" \/ op = "create" \/ n \notin DOMAIN ev.last
                THEN -1 ELSE ev.last[n],
     last |-> [m \in DOMAIN rooms \cup {n} |->
                 IF m = n THEN value
                 ELSE IF ev.op = "none" \/ m \notin DOMAIN ev.last THEN -1
                 ELSE ev.last[m]]]

\* time.time() returns a later time
Tick ==
    /\ npkts < MaxTimerSteps
    /\ \E d \in ClockSteps : now' = now + d
    /\ npkts' = npkts + 1
    /\ UNCHANGED <<userDb, nextId, users, free, used, rooms, heap, sock, pc,
                   account_id, loc, mode, frameVars, ev, lastDeleted, sent>>

\* CREATE ROOM, lines 632-639 and 648-650: the room record with
\* round_start = time.time(), and p<round_length> to the creator
TimerCreate ==
    /\ npkts < MaxTimerSteps
    /\ npkts' = npkts + 1
    /\ LET o == NewObj
       IN  /\ rooms' = [n \in DOMAIN rooms \cup {TimerRoom} |->
                          IF n = TimerRoom THEN o ELSE rooms[n]]
           /\ heap' = Gc([x \in DOMAIN heap \cup {o} |->
                            IF x = o
                            THEN [settings_string |-> <<>>, players |-> {},
                                  round_start |-> now]
                            ELSE heap[x]], rooms', loc)
    /\ ev' = TimerEv("create", TimerRoom, RoundLength, now)
    /\ UNCHANGED <<userDb, nextId, users, free, used, sock, pc, account_id,
                   loc, now, mode, frameVars, lastDeleted, sent>>

\* JOIN ROOM of a game room, lines 506-512: round_start is set if it is
\* None, then the remaining time goes to every member
TimerJoin ==
    /\ npkts < MaxTimerSteps
    /\ npkts' = npkts + 1
    /\ TimerRoom \in DOMAIN rooms
    /\ LET o == rooms[TimerRoom]
           start == IF heap[o].round_start = NoTime THEN now
                    ELSE heap[o].round_start
       IN  /\ heap' = [heap EXCEPT ![o].round_start = start]
           /\ ev' = TimerEv("join", TimerRoom, Remaining(start), start)
    /\ UNCHANGED <<userDb, nextId, users, free, used, rooms, sock, pc,
                   account_id, loc, now, mode, frameVars, lastDeleted, sent>>

\* the round time request "p" and the room info request "04", lines 609-612
\* and 735-738, for a room of the registry
TimerRead ==
    /\ npkts < MaxTimerSteps
    /\ npkts' = npkts + 1
    /\ \E n \in DOMAIN rooms :
          ev' = TimerEv("read", n, Remaining(heap[rooms[n]].round_start),
                        heap[rooms[n]].round_start)
    /\ UNCHANGED <<userDb, nextId, users, free, used, rooms, heap, sock, pc,
                   account_id, loc, now, mode, frameVars, lastDeleted, sent>>

SpecTimer ==
    InitTimer /\ [][Tick \/ TimerCreate \/ TimerJoin \/ TimerRead]_vars

\* ------------------------------------------------- sendall, write by write
\* The sessions of one game room relay packets to each other.  No lock guards
\* a socket (send, relay_raw_to_room and relay_chat9_to_room call sendall
\* directly), and sendall is a loop of send calls, each of which writes as
\* many of the remaining bytes as the socket takes: between two of them
\* another thread's sendall may write to the same socket.
SendRoom == <<"r">>

SendRoomObj == 2

Senders == 1..NRelayConns

SenderName(a) ==
    CASE a = 1 -> <<"a">>
      [] a = 2 -> <<"b">>
      [] OTHER -> <<"c">>

SendPackets == {PktRaw, PktChat}

\* every client has logged in, the first has created the room and the others
\* have joined it
InitSend ==
    /\ mode = "send"
    /\ userDb = [u \in {SenderName(a) : a \in Senders} |->
                    [hash |-> md5_hash(<<"x">>),
                     acc_id |-> CHOOSE a \in Senders : SenderName(a) = u]]
    /\ nextId = NRelayConns + 1
    /\ users = [a \in Senders |->
                   [username |-> SenderName(a), socket |-> a,
                    room |-> SendRoom, slot |-> a, last_state |-> NONE]]
    /\ free = Slots \ Senders
    /\ used = [a \in Senders |-> a]
    /\ rooms = [n \in {Lobby, SendRoom} |->
                   IF n = Lobby THEN LobbyObj ELSE SendRoomObj]
    /\ heap = [o \in {LobbyObj, SendRoomObj} |->
                  IF o = LobbyObj
                  THEN [settings_string |-> <<>>, players |-> {},
                        round_start |-> NoTime]
                  ELSE [settings_string |-> <<"F">>, players |-> Senders,
                        round_start |-> 0]]
    /\ sock = [c \in Conns |-> IF c \in Senders THEN "open" ELSE "closed"]
    /\ pc = [c \in Conns |-> IF c \in Senders THEN "idle" ELSE "free"]
    /\ account_id = [c \in Conns |-> IF c \in Senders THEN c ELSE NoAcc]
    /\ loc = [c \in Conns |-> LocInit]
    /\ npkts = 0
    /\ now = 0
    /\ ev = EvNone
    /\ lastDeleted = NONE
    /\ sent = [c \in Conns |-> <<>>]
    /\ wire = <<>>
    /\ nread = 0
    /\ buf = <<>>
    /\ dispatched = <<>>
    /\ fpc = "done"

\* out = (raw_packet + "\x00").encode("utf-8")
encode(msg) == msg \o <<NUL>>

\* handle_packet for a raw or chat packet, up to the first sendall of the
\* loop over room["players"]
SendRecv(c) ==
    /\ pc[c] = "idle"
    /\ npkts < MaxSendPackets
    /\ \E p \in SendPackets : \E order \in Orders(RelayRoom(c)) :
        LET att == OtherAtt(c, p, Kind(p, Authed(c)), order, NoAcc)
        IN  /\ att # <<>>
            /\ loc' = [loc EXCEPT ![c].todo = att,
                                  ![c].pkt = encode(Head(att).msg)]
    /\ npkts' = npkts + 1
    /\ pc' = [pc EXCEPT ![c] = "sendall"]
    /\ UNCHANGED <<userDb, nextId, users, free, used, rooms, heap, sock,
                   account_id, now, mode, frameVars, ev, lastDeleted, sent>>

\* one send call of sendall's loop: the socket takes what is left, or the
\* first SendRoomLeft bytes of it when its buffer has no more room; after the
\* last byte the loop over the players goes on
SendPiece(c) ==
    /\ pc[c] = "sendall"
    /\ \E k \in {Len(loc[c].pkt)} \cup (1..Len(loc[c].pkt) \cap {SendRoomLeft}) :
        /\ sent' = [sent EXCEPT ![Head(loc[c].todo).to] =
                                    @ \o Take(loc[c].pkt, k)]
        /\ IF k < Len(loc[c].pkt)
           THEN /\ loc' = [loc EXCEPT ![c].pkt = Drop(@, k)]
                /\ UNCHANGED pc
           ELSE IF Tail(loc[c].todo) = <<>>
           THEN /\ loc' = [loc EXCEPT ![c] = LocInit]
                /\ pc' = [pc EXCEPT ![c] = "idle"]
           ELSE /\ loc' = [loc EXCEPT ![c].todo = Tail(@),
                                      ![c].pkt = encode(loc[c].todo[2].msg)]
                /\ UNCHANGED pc
    /\ UNCHANGED <<userDb, nextId, users, free, used, rooms, heap, sock,
                   account_id, npkts, now, mode, frameVars, ev, lastDeleted>>

SpecSend ==
    InitSend /\ [][\E c \in Conns : SendRecv(c) \/ SendPiece(c)]_vars

\* ------------------------------------------------------------- the claims
\* the rooms of the registry whose member set holds account a
RoomsOf(a) == {n \in DOMAIN rooms : a \in heap[rooms[n]].players}

AllAccs == {userDb[u].acc_id : u \in DOMAIN userDb}

\* ev is a finished packet of kind op from a session that was authenticated
\* when the packet arrived: its account had a directory entry for its socket
DoneBy(op) ==
    /\ ev.done
    /\ ev.op = op
    /\ ev.acc \in DOMAIN ev.users
    /\ ev.users[ev.acc].socket = ev.conn

JoinTarget(packet) == normalize_room_name(Drop(packet, 2))

WellFormedCreate(packet) ==
    Contains(Drop(packet, 2), SEMI) /\ Contains(Drop(Drop(packet, 2), 3), SEMI)

\* the registry still holds the lobby the server was started with
LobbyIntact == Lobby \in DOMAIN rooms /\ rooms[Lobby] = LobbyObj

\* C1: every account id is in the member set of at most one room, and a Join
\* of an existing room B by a session that is in another room (or in none)
\* ends with the session a member of exactly B.  (Stated for the runs that
\* leave the lobby object alone.)
C1_AtMostOneRoom ==
    /\ LobbyIntact => \A a \in AllAccs : Cardinality(RoomsOf(a)) <= 1
    /\ (/\ DoneBy("join")
        /\ LobbyIntact
        /\ JoinTarget(ev.pkt) \in DOMAIN ev.members
        /\ ev.users[ev.acc].room # JoinTarget(ev.pkt))
       => RoomsOf(ev.acc) = {JoinTarget(ev.pkt)}

\* C2: allocate never returns a slot that the allocator records for another
\* account, and no two entries of the session directory hold the same slot.
C2_SlotsUnique ==
    /\ \A c \in Conns :
          pc[c] \in {"alloc_used", "auth_users"} =>
              \A a \in DOMAIN used \ {account_id[c]} : used[a] # loc[c].slot
    /\ \A a, b \in DOMAIN users : a # b => users[a].slot # users[b].slot

\* C3: when no handler is mid-operation, every slot that is not in the free
\* pool is the slot of a session in the directory (no slot is leaked).
C3_NoSlotLeak ==
    Quiescent =>
        \A s \in Slots \ free : \E a \in DOMAIN users : users[a].slot = s

\* C4: when the teardown of an authenticated session has completed, its
\* account id is in no room's member set, its slot is back in the free pool
\* and the directory has no entry for it.
C4_TeardownClean ==
    DoneBy("close") =>
        /\ RoomsOf(ev.acc) = {}
        /\ ev.users[ev.acc].slot \in free
        /\ ev.acc \notin DOMAIN users

\* C5: whenever no handler is in the middle of an operation, the registry
\* holds no room other than the lobby whose member set is empty.
C5_NoEmptyRoom ==
    Quiescent =>
        \A n \in DOMAIN rooms : n # Lobby => heap[rooms[n]].players # {}

\* a room was deleted when its last member left, and every handler is at rest
C5_Witness ==
    /\ Quiescent
    /\ lastDeleted # NONE
    /\ lastDeleted \notin DOMAIN rooms
    /\ \E a \in DOMAIN users : users[a].room = NONE

\* C6: the room_name of every connection's session is unset or the name of a
\* room that is in the registry.
C6_NoDanglingRoom ==
    \A c \in Conns :
        (/\ Authed(c)
         /\ users[account_id[c]].socket = c
         /\ users[account_id[c]].room # NONE)
        => users[account_id[c]].room \in DOMAIN rooms

\* C7: the lobby is in the registry in every state, is never replaced by
\* another room object, and a Create that names the lobby leaves the lobby's
\* member set as it was.
C7_LobbyReserved ==
    /\ Lobby \in DOMAIN rooms
    /\ rooms[Lobby] = LobbyObj
    /\ (/\ DoneBy("create")
        /\ WellFormedCreate(ev.pkt)
        /\ CreateName(ev.pkt) = Lobby)
       => Members[Lobby] = ev.members[Lobby]

\* C8: a Join, by a session in room R, of a non-lobby room that the registry
\* does not hold leaves the session a member of R and R's member set as it was.
\* (Stated for the runs that leave the lobby object alone.)
C8_JoinMissingKeepsRoom ==
    (/\ DoneBy("join")
     /\ LobbyIntact
     /\ JoinTarget(ev.pkt) \notin DOMAIN ev.members
     /\ JoinTarget(ev.pkt) # Lobby
     /\ ev.users[ev.acc].room \in DOMAIN ev.members
     /\ ev.acc \in ev.members[ev.users[ev.acc].room])
    => /\ ev.acc \in DOMAIN users
       /\ users[ev.acc].room = ev.users[ev.acc].room
       /\ users[ev.acc].room \in DOMAIN rooms
       /\ Members[users[ev.acc].room] = ev.members[ev.users[ev.acc].room]

\* C9: after Create(name, settings) by session S the registry maps name to a
\* room whose member set is exactly {S} and whose settings are the given
\* string, and S is a member of no other room.
C9_CreateSoleMember ==
    (DoneBy("create") /\ WellFormedCreate(ev.pkt))
    => /\ CreateName(ev.pkt) \in DOMAIN rooms
       /\ heap[rooms[CreateName(ev.pkt)]].players = {ev.acc}
       /\ heap[rooms[CreateName(ev.pkt)]].settings_string =
              SplitFirst(Drop(Drop(ev.pkt, 2), 3), SEMI)[2]
       /\ RoomsOf(ev.acc) = {CreateName(ev.pkt)}

\* C10: an authenticate packet on an already-authenticated session is
\* rejected: the session's account id, its slot and room, the directory, the
\* allocator and the rooms are as they were.
C10_ReauthRejected ==
    DoneBy("auth")
    => /\ account_id[ev.conn] = ev.acc
       /\ users = ev.users
       /\ free = ev.free
       /\ used = ev.used
       /\ Members = ev.members

\* the packets written to connection c's socket
Got(c) == {sent[c][i] : i \in 1..Len(sent[c])}

AuthUser(packet) == SplitFirst(Drop(packet, 2), SEMI)[1]

AuthPass(packet) == SplitFirst(Drop(packet, 2), SEMI)[2]

\* ev is a finished authenticate packet with a name and a password, from a
\* client that is still there to read the answer
DoneAuth ==
    /\ ev.done
    /\ ev.op = "auth"
    /\ Contains(Drop(ev.pkt, 2), SEMI)
    /\ ev.sock[ev.conn] = "open"

\* the account ids the login acks of the finished attempt report
AckIds ==
    {id \in 0..nextId :
        login_ack(id, AuthUser(ev.pkt), AuthPass(ev.pkt)) \in Got(ev.conn)}

\* C11: an authentication attempt is accepted (answered with a login ack)
\* exactly when its username had no account, and then the account is created
\* with that password, or its password is the stored one; the ack reports the
\* account id stored for the name, and a stored account never changes, so
\* every accepted attempt for a name reports the id of the first.
C11_AuthAccepted ==
    DoneAuth
    => LET u == AuthUser(ev.pkt)
           pw == AuthPass(ev.pkt)
           known == u \in DOMAIN ev.userDb
       IN  /\ AckIds # {}
              <=> (~known \/ ev.userDb[u].hash = <<"md5", pw>>)
           /\ AckIds # {}
              => /\ u \in DOMAIN userDb
                 /\ userDb[u].hash = <<"md5", pw>>
                 /\ AckIds = {userDb[u].acc_id}
           /\ AckIds = {} => userDb = ev.userDb
           /\ \A v \in DOMAIN ev.userDb :
                  v \in DOMAIN userDb /\ userDb[v] = ev.userDb[v]

\* a fresh session logs in under a name that has an account, with the stored
\* password, and is answered with the stored id
C11_Witness ==
    /\ DoneAuth
    /\ AuthUser(ev.pkt) \in DOMAIN ev.userDb
    /\ AckIds # {}
    /\ ev.acc = NoAcc

\* ev is a finished attempt of an unauthenticated session to log in under a
\* name that has an account, with another password than the stored one
Rejected ==
    /\ DoneAuth
    /\ ev.acc = NoAcc
    /\ AuthUser(ev.pkt) \in DOMAIN ev.userDb
    /\ ev.userDb[AuthUser(ev.pkt)].hash # <<"md5", AuthPass(ev.pkt)>>

\* the state is as it was when the packet of ev arrived, the handler is back
\* in its read loop, and the client was told
RejectedClean ==
    /\ account_id[ev.conn] = NoAcc
    /\ sock[ev.conn] = "open"
    /\ pc[ev.conn] = "idle"
    /\ userDb = ev.userDb
    /\ users = ev.users
    /\ free = ev.free
    /\ used = ev.used
    /\ Members = ev.members
    /\ <<"10;0;Incorrect password">> \in Got(ev.conn)
    /\ \A c \in Conns \ {ev.conn} : sent[c] = <<>>

\* the next packet is the same session's attempt with the stored password
RetryStep ==
    /\ Rejected
    /\ ev'.op = "auth"
    /\ ev'.conn = ev.conn
    /\ Contains(Drop(ev'.pkt, 2), SEMI)
    /\ AuthUser(ev'.pkt) = AuthUser(ev.pkt)
    /\ userDb[AuthUser(ev.pkt)].hash = <<"md5", AuthPass(ev'.pkt)>>

\* C12: a wrong password for an existing account leaves the session
\* unauthenticated with its connection open, and the account store, the
\* directory, the allocator and the rooms unchanged; the same session's next
\* attempt with the stored password is accepted under the account's id.
C12_WrongPassword ==
    [][/\ Rejected' => RejectedClean'
       /\ RetryStep
          => /\ account_id'[ev.conn] = userDb[AuthUser(ev.pkt)].acc_id
             /\ login_ack(userDb[AuthUser(ev.pkt)].acc_id, AuthUser(ev'.pkt),
                          AuthPass(ev'.pkt)) \in Got(ev.conn)']_vars

\* a rejected attempt, with packets left to retry
C12_Witness == Rejected /\ npkts < MaxAuthPackets /\ mode = "auth"

\* ev is a finished packet, not an authenticate packet and not the policy
\* request, of a session that had not logged in
PreAuth ==
    /\ ev.done
    /\ ev.acc = NoAcc
    /\ ev.pkt # <<>>
    /\ ev.pkt # PktPolicy
    /\ ~StartsWith(ev.pkt, <<"0", "9">>)

\* C13: a packet other than authenticate from an unauthenticated session is
\* discarded: the rooms, the directory, the allocator, the account store and
\* the session are as before, nothing is written to any other session, and
\* the connection stays open with its thread back in the read loop.
C13_PreAuthDiscarded ==
    PreAuth
    => /\ account_id[ev.conn] = NoAcc
       /\ userDb = ev.userDb
       /\ users = ev.users
       /\ free = ev.free
       /\ used = ev.used
       /\ Members = ev.members
       /\ sock[ev.conn] = "open"
       /\ pc[ev.conn] = "idle"
       /\ \A c \in Conns \ {ev.conn} : sent[c] = <<>>

\* a join sent before logging in, while another session sits in the lobby
C13_Witness ==
    /\ PreAuth
    /\ StartsWith(ev.pkt, <<"0", "3">>)
    /\ \E a \in DOMAIN users : users[a].room = Lobby

\* an appearance (U), movement/state (1, 8) or spawn-signal (6) packet: the
\* wire id of the session it is about follows the opcode
AboutPeer(msg) == Len(msg) >= 4 /\ Head(msg) \in {"U", "1", "8", "6"}

\* on the stream written to a socket, every packet about a session comes after
\* the C packet of that session
IdentityFirst(stream) ==
    \A i \in 1..Len(stream) :
        AboutPeer(stream[i])
        => \E j \in 1..(i - 1) : stream[j] = MsgC(SubSeq(stream[i], 2, 4))

\* C14: what a Join of a game room writes to any socket announces a session
\* (C<slot>) before it writes an appearance, state or spawn-signal packet
\* about that session.
C14_IdentityFirst ==
    (DoneBy("join") /\ JoinTarget(ev.pkt) # Lobby)
    => \A r \in Conns : IdentityFirst(sent[r])

\* a packet relay_state_to_room wrote: one of the relayed opcodes, then the
\* sender's wire id
Relayed(msg) == Len(msg) >= 4 /\ Head(msg) \in {"1", "8", "4", "6", "7"}

\* on everything written to a socket so far, a relayed packet of a session
\* comes after a C packet of that session
AnnouncedFirst(stream) ==
    \A i \in 1..Len(stream) :
        Relayed(stream[i])
        => \E j \in 1..(i - 1) : stream[j] = MsgC(SubSeq(stream[i], 2, 4))

\* C15: with the handlers of the connections interleaving, no session is sent
\* a relayed packet about a slot before it has been sent that slot's identity
\* announcement C<slot>.  (This is the ordering of the relayed packets; the
\* departed notices are those of leave_current_room and of the Join's notice
\* to the room it enters.)
C15_AnnouncedBeforeRelay ==
    mode = "race" => \A r \in Conns : AnnouncedFirst(sent[r])

\* the other members of the room the session of ev has joined
JoinedPeers ==
    IF JoinTarget(ev.pkt) \in DOMAIN rooms
       /\ ev.acc \in heap[rooms[JoinTarget(ev.pkt)]].players
    THEN (heap[rooms[JoinTarget(ev.pkt)]].players \ {ev.acc}) \cap DOMAIN users
    ELSE {}

\* ev is a finished Join of a game room, from a client that is there, one of
\* whose members has a socket that takes no writes
JoinPastBrokenPeer ==
    /\ DoneBy("join")
    /\ JoinTarget(ev.pkt) # Lobby
    /\ ev.sock[ev.conn] = "open"
    /\ sock = ev.sock
    /\ \E q \in JoinedPeers : sock[users[q].socket] = "closed"

\* C16: when a Join is announced to a room one of whose members has a broken
\* socket, every other member is still sent the joiner's announcement.
C16_RestStillNotified ==
    JoinPastBrokenPeer
    => \A q \in JoinedPeers :
           sock[users[q].socket] = "open"
           => MsgC(wire_id(ev.acc)) \in Got(users[q].socket)

\* ev is a finished packet of an authenticated session that was a member of
\* the room its directory entry names
DoneInRoom ==
    /\ ev.done
    /\ ev.pkt # <<>>
    /\ ev.acc \in DOMAIN ev.users
    /\ ev.users[ev.acc].socket = ev.conn
    /\ ev.users[ev.acc].room \in DOMAIN ev.members
    /\ ev.acc \in ev.members[ev.users[ev.acc].room]

\* the sockets of the other members of that room, those that take writes
PeerSocks ==
    {ev.users[q].socket :
        q \in {a \in (ev.members[ev.users[ev.acc].room] \ {ev.acc})
                      \cap DOMAIN ev.users :
                  ev.sock[ev.users[a].socket] = "open"}}

\* C17: a movement/state/spawn-signal packet (opcode 1, 8, 4, 6 or 7) of a
\* room member is sent to every other member as opcode, the sender's 3-digit
\* wire slot, payload; and is not sent to the sender.
C17_StateRelayed ==
    (DoneInRoom /\ Head(ev.pkt) \in {"1", "8", "4", "6", "7"})
    => LET out == <<Head(ev.pkt)>> \o Fmt3(ev.users[ev.acc].slot)
                      \o Tail(ev.pkt)
       IN  /\ \A s \in PeerSocks : out \in Got(s)
           /\ ev.conn \notin PeerSocks => out \notin Got(ev.conn)

\* C18: a chat packet (opcode 9, not the 9? ping) of a room member is sent
\* to every other member as M, the sender's wire slot, the packet; and is not
\* sent back to the sender.
C18_ChatNotEchoed ==
    (/\ DoneInRoom
     /\ StartsWith(ev.pkt, <<"9">>)
     /\ ~StartsWith(ev.pkt, <<"9", "?">>))
    => LET out == <<"M">> \o Fmt3(ev.users[ev.acc].slot) \o ev.pkt
       IN  /\ \A s \in PeerSocks : out \in Got(s)
           /\ ev.conn \notin PeerSocks => out \notin Got(ev.conn)

\* ev is a finished direct message 00<target slot><payload> of an
\* authenticated session
DonePm ==
    /\ ev.done
    /\ StartsWith(ev.pkt, <<"0", "0">>)
    /\ Len(ev.pkt) >= 5
    /\ ev.acc \in DOMAIN ev.users
    /\ ev.users[ev.acc].socket = ev.conn

\* the sockets of the connected sessions that hold the target slot
PmHolders ==
    {ev.users[a].socket :
        a \in {b \in DOMAIN ev.users :
                  /\ Fmt3(ev.users[b].slot) = SubSeq(ev.pkt, 3, 5)
                  /\ ev.sock[ev.users[b].socket] = "open"}}

\* C19: a direct message is written, as M<sender slot><payload>, to the
\* session that holds the target slot and to no other, in the sender's room
\* or not; with no connected holder nothing is written; and the directory,
\* the allocator, the rooms and the account store are left as they were.
C19_DirectMessage ==
    DonePm
    => /\ \A c \in Conns :
              sent[c] = IF c \in PmHolders
                        THEN <<(<<"M">> \o Fmt3(ev.users[ev.acc].slot)
                                   \o Drop(ev.pkt, 5))>>
                        ELSE <<>>
       /\ Cardinality(PmHolders) <= 1
       /\ users = ev.users
       /\ free = ev.free
       /\ used = ev.used
       /\ Members = ev.members
       /\ userDb = ev.userDb

\* a direct message from a room member to a session outside the room
C19_Witness ==
    /\ DonePm
    /\ PmHolders # {}
    /\ ev.conn \notin PmHolders
    /\ ev.users[ev.acc].room \in DOMAIN rooms
    /\ \E a \in DOMAIN users :
           users[a].socket \in PmHolders /\ users[a].room = NONE

\* the packet starts with none of the opcodes the dispatcher handles
Unrecognized(packet) ==
    /\ packet # <<>>
    /\ packet # PktPolicy
    /\ Head(packet) \notin {"1", "8", "4", "6", "7", "9"}
    /\ Take(packet, 2) \notin {<<"0", "9">>, <<"0", "3">>, <<"0", "4">>,
                               <<"0", "2">>, <<"0", "k">>, <<"0", "q">>,
                               <<"0", "d">>, <<"0", "0">>}
    /\ packet \notin {<<"0", "1">>, <<"p">>}

\* ev is a finished packet with an unrecognized opcode, of an authenticated
\* session whose client is there
DoneUnrecognized ==
    /\ ev.done
    /\ Unrecognized(ev.pkt)
    /\ ev.acc \in DOMAIN ev.users
    /\ ev.users[ev.acc].socket = ev.conn
    /\ ev.sock[ev.conn] = "open"

\* C20: a packet with an unrecognized opcode from an authenticated session is
\* dropped: nothing is written to any socket, the directory, the allocator,
\* the rooms and the account store stay as they were, and the session stays
\* open with its thread back in the read loop for its next packet.
C20_UnknownDropped ==
    DoneUnrecognized
    => /\ sent = NoSent
       /\ users = ev.users
       /\ free = ev.free
       /\ used = ev.used
       /\ Members = ev.members
       /\ userDb = ev.userDb
       /\ account_id[ev.conn] = ev.acc
       /\ sock[ev.conn] = "open"
       /\ pc[ev.conn] = "idle"

\* an unrecognized packet from a member of a room with another member
C20_Witness == DoneUnrecognized /\ DoneInRoom /\ PeerSocks # {}

\* the non-empty segments of text that are followed by a terminator, in order
RECURSIVE Segments(_)
Segments(text) ==
    IF ~Contains(text, 0) THEN <<>>
    ELSE LET parts == SplitFirst(text, 0)
         IN  (IF parts[1] = <<>> THEN <<>> ELSE <<parts[1]>>)
             \o Segments(parts[2])

\* what follows the last terminator of text
RECURSIVE Unterminated(_)
Unterminated(text) ==
    IF ~Contains(text, 0) THEN text
    ELSE Unterminated(SplitFirst(text, 0)[2])

\* C21: however the bytes of a connection are split into reads, whenever
\* handle() is about to read (or has read the end of the stream) the packets
\* it has dispatched are the non-empty terminated segments of all the bytes
\* read so far, in order, and buf holds the unterminated rest: nothing
\* complete waits for the next read, nothing unterminated is dispatched
C21_FramingSplitIndependent ==
    fpc \in {"recv", "done"}
    => LET text == decode(Take(wire, nread))
       IN  /\ dispatched = Segments(text)
           /\ buf = Unterminated(text)

\* the slot the call before the last one released (0: it released none)
ReleasedBefore ==
    IF ev.prev.op = "release" /\ ev.prev.acc \in DOMAIN ev.prev.used
    THEN ev.prev.used[ev.prev.acc] ELSE 0

\* C22: an allocate that finds a free slot returns the smallest free slot,
\* takes exactly that slot out of the free pool and records the account as
\* its owner, leaving the other owners alone; and an allocate that comes
\* right after the release of slot s returns s when no smaller slot is free
C22_SmallestFreeSlot ==
    ev.op = "allocate" /\ ev.free # {}
    => /\ ev.ret \in ev.free
       /\ \A x \in ev.free : ev.ret <= x
       /\ free = ev.free \ {ev.ret}
       /\ DOMAIN used = DOMAIN ev.used \cup {ev.acc}
       /\ used[ev.acc] = ev.ret
       /\ \A b \in DOMAIN ev.used \ {ev.acc} : used[b] = ev.used[b]
       /\ ReleasedBefore # 0 /\ (\A x \in ev.free : x >= ReleasedBefore)
          => ev.ret = ReleasedBefore

\* a slot above 1 is released while a higher slot is free and a lower one is
\* held, and the next call allocates the released slot again
C22_Witness ==
    /\ ev.op = "allocate"
    /\ ReleasedBefore > 1
    /\ ev.ret = ReleasedBefore
    /\ \E x \in ev.free : x > ev.ret

\* the slots that are not in the free pool
InUse == Slots \ free

\* ev is a call of a run in which no account was allocated a second slot
\* while it held one
OnePerAccount == ev.op # "none" /\ ~ev.double

\* C23 as stated: with one allocation per account and k accounts holding
\* slots, the slots in use are exactly 1..k
C23_AlwaysCompact ==
    OnePerAccount => InUse = 1..Cardinality(DOMAIN used)

\* C23: with one allocation per account, the k accounts that hold slots
\* hold k different slots and these are the slots in use; an allocate that
\* returns s leaves every slot of 1..s in use; and the slots in use are
\* exactly 1..k as long as no release has freed a slot below another slot
\* in use
C23_CompactUntilGap ==
    OnePerAccount
    => /\ InUse = {used[a] : a \in DOMAIN used}
       /\ \A a, b \in DOMAIN used : used[a] = used[b] => a = b
       /\ ev.op = "allocate" /\ ev.ret # 0 => 1..ev.ret \subseteq InUse
       /\ ~ev.gapped => InUse = 1..Cardinality(DOMAIN used)

\* two accounts hold slots 1 and 2 after the highest slot was released and
\* allocated again, with no gap ever made
C23_Witness ==
    /\ OnePerAccount
    /\ ~ev.gapped
    /\ ev.op = "allocate"
    /\ ReleasedBefore = 2
    /\ ev.ret = 2
    /\ InUse = {1, 2}

\* C24: when an unauthenticated session's attempt with acceptable
\* credentials arrives while no slot is free, the attempt is rejected: no
\* login ack is written, no directory entry is made, the session stays
\* unauthenticated, the allocator is as before and nothing is written to
\* any other session
C24_ExhaustionRejected ==
    /\ DoneAuth
    /\ ev.acc = NoAcc
    /\ ev.free = {}
    /\ \/ AuthUser(ev.pkt) \notin DOMAIN ev.userDb
       \/ ev.userDb[AuthUser(ev.pkt)].hash = <<"md5", AuthPass(ev.pkt)>>
    => /\ AckIds = {}
       /\ users = ev.users
       /\ account_id[ev.conn] = NoAcc
       /\ free = ev.free
       /\ used = ev.used
       /\ Members = ev.members
       /\ \A c \in Conns \ {ev.conn} : sent[c] = <<>>

\* C25: whatever the interleaving of the handler threads, every step leaves
\* the account store with a different id for every username, and leaves
\* every username that had an account with the id it had
C25_IdsUniqueStable ==
    [][/\ \A u, v \in DOMAIN userDb' :
              userDb'[u].acc_id = userDb'[v].acc_id => u = v
       /\ \A u \in DOMAIN userDb :
              u \in DOMAIN userDb' /\ userDb'[u].acc_id = userDb[u].acc_id]_vars

\* the room names a room-list packet "01" <count><name>; ... lists
RECURSIVE ListedNames(_)
ListedNames(body) ==
    IF ~Contains(body, SEMI) THEN {}
    ELSE LET parts == SplitFirst(body, SEMI)
         IN  {Drop(parts[1], 2)} \cup ListedNames(parts[2])

\* packet is a room list that does not list the room called name
RoomListWithout(packet, name) ==
    /\ StartsWith(packet, <<"0", "1">>)
    /\ name \notin ListedNames(Drop(packet, 2))

\* C26: a step that takes a room other than the lobby out of the registry
\* writes, to every session of the directory whose room is the lobby and
\* whose connection is open, a room list that does not list that room
C26_DeletionAnnounced ==
    [][\A d \in DOMAIN rooms \ DOMAIN rooms' :
         \A a \in DOMAIN users :
            users[a].room = Lobby /\ sock[users[a].socket] = "open"
            => LET s == users[a].socket
               IN  /\ Len(sent'[s]) > Len(sent[s])
                   /\ RoomListWithout(sent'[s][Len(sent'[s])], d)
                   /\ sent'[s][Len(sent'[s])]
                          = build_room_list_bytes(rooms', heap')]_vars

\* the last member of a room has left it, the room is gone, and a session of
\* the lobby on another connection has been written the room list
C26_Witness ==
    /\ lastDeleted # NONE
    /\ lastDeleted \notin DOMAIN rooms
    /\ lastDeleted \in DOMAIN ev.members
    /\ ev.members[lastDeleted] = {ev.acc}
    /\ \E a \in DOMAIN users :
          /\ users[a].room = Lobby
          /\ users[a].socket # ev.conn
          /\ sock[users[a].socket] = "open"
          /\ sent[users[a].socket] = <<build_room_list_bytes(rooms, heap)>>

\* C27: when a session has joined the lobby, every other member of the
\* lobby whose connection is open has been written the room list of the
\* registry
C27_LobbyJoinAnnounced ==
    /\ DoneBy("join")
    /\ JoinTarget(ev.pkt) = Lobby
    /\ LobbyIntact
    /\ ev.acc \in DOMAIN users
    /\ users[ev.acc].room = Lobby
    => \A a \in heap[rooms[Lobby]].players \ {ev.acc} :
          a \in DOMAIN users /\ users[a].room = Lobby
          /\ sock[users[a].socket] = "open"
          /\ users[a].socket # ev.conn
          => build_room_list_bytes(rooms, heap) \in Got(users[a].socket)

\* the positions of a handler inside leave_current_room
LeavePcs == {"leave_enter", "leave_remove", "leave_cleanup"}

\* account a has no directory entry, or its entry names no room
InNoRoom(us, a) == a \notin DOMAIN us \/ us[a].room = NONE

\* C28: a Leave invoked for a session that has no directory entry or is in
\* no room returns at once with the accounts, the directory, the allocator,
\* the rooms and their members as they were and nothing written to any
\* socket; and every Leave that returns has either left its session in that
\* condition or has itself returned at once with nothing changed, so that a
\* Leave after a Leave changes nothing and sends nothing
C28_LeaveIdempotent ==
    [][\A c \in Conns :
         /\ pc[c] = "leave_enter" /\ pc'[c] # "leave_enter"
            /\ InNoRoom(users, account_id[c])
            => /\ pc'[c] \notin LeavePcs
               /\ UNCHANGED <<userDb, users, free, used, rooms, heap, sock,
                              sent, lastDeleted>>
         /\ pc[c] \in LeavePcs /\ pc'[c] \notin LeavePcs
            => \/ InNoRoom(users', account_id'[c])
               \/ /\ pc[c] = "leave_enter"
                  /\ UNCHANGED <<userDb, users, free, used, rooms, heap,
                                 sock, sent, lastDeleted>>]_vars

\* a session that is logged in and in no room disconnects: remove_user has
\* called Leave, and Leave has returned
C28_Witness ==
    /\ ev.op = "close"
    /\ ev.acc \in DOMAIN ev.users
    /\ ev.users[ev.acc].room = NONE
    /\ pc[ev.conn] = "remove_release"
    /\ users = ev.users
    /\ Members = ev.members

\* ev is a reported remaining time: of a Join or of a request
TimeReported == ev.op \in {"join", "read"}

\* whole seconds between the room's round_start and the report
WholeSecondsElapsed ==
    CHOOSE e \in 0..(ev.at \div TicksPerSecond + 1) :
        /\ e * TicksPerSecond <= ev.at - ev.start
        /\ ev.at - ev.start < (e + 1) * TicksPerSecond

RECURSIVE ListedEntries(_)
ListedEntries(body) ==
    IF ~Contains(body, SEMI) THEN {}
    ELSE LET parts == SplitFirst(body, SEMI)
         IN  {<<Drop(parts[1], 2), Take(parts[1], 2)>>}
             \cup ListedEntries(parts[2])

\* the decimal digits of a count below 100, in two places
TwoDigits(n) == <<Digits[(n \div 10) + 1], Digits[(n % 10) + 1]>>

\* C30: the answer to a room list request is one "01" packet whose entries
\* are exactly the rooms of the registry other than the lobby, each with the
\* number of its members; the lobby is not among them; and when every
\* session of the directory is in the lobby the answer has no entry
C30_RoomListExact ==
    DoneBy("list") /\ sock[ev.conn] = "open"
    => /\ Len(sent[ev.conn]) = 1
       /\ LET packet == sent[ev.conn][1]
              listed == ListedEntries(Drop(packet, 2))
          IN  /\ Take(packet, 2) = <<"0", "1">>
              /\ listed = {<<n, TwoDigits(Cardinality(heap[rooms[n]].players))>> :
                             n \in DOMAIN rooms \ {Lobby}}
              /\ \A e \in listed : e[1] # Lobby
              /\ (\A a \in DOMAIN users : users[a].room = Lobby)
                 => listed = {}

\* the session of connection d: the connection is open and the directory entry
\* of its account names its socket
Owns(d) ==
    /\ sock[d] = "open"
    /\ Authed(d)
    /\ users[account_id[d]].socket = d

\* C31: no step of one connection's handler (an error in a packet included)
\* closes the socket or removes the directory entry of another connection's
\* session: a session is torn down only by its own handler, after its own
\* connection closed or its own socket broke.
C31_TeardownOwnOnly ==
    [][\A d \in Conns : \A c \in Conns \ {d} :
          (Owns(d) /\ pc'[c] # pc[c])
          => /\ sock'[d] = "open"
             /\ account_id[d] \in DOMAIN users']_vars

\* the terminated segments of the bytes written to a socket, in order
RECURSIVE Delimited(_)
Delimited(stream) ==
    IF ~Contains(stream, NUL) THEN <<>>
    ELSE <<SplitFirst(stream, NUL)[1]>> \o Delimited(SplitFirst(stream, NUL)[2])

\* the packets the handlers of the room pass to sendall
WholePackets ==
    {PktRaw} \cup {<<"M">> \o Fmt3(users[a].slot) \o PktChat : a \in DOMAIN users}

\* C32: on every socket, whatever two handler threads write at the same time,
\* each terminated segment of the bytes written is one whole packet: the
\* bytes of two packets are never interleaved.
C32_WritesSerialized ==
    mode = "send"
    => \A r \in Conns :
           \A i \in 1..Len(Delimited(sent[r])) :
               Delimited(sent[r])[i] \in WholePackets

\* the members of the game room the session of ev asked to join that had a
\* cached state, a directory entry naming that room and an open socket
Movers ==
    IF JoinTarget(ev.pkt) \in DOMAIN ev.members
    THEN {q \in (ev.members[JoinTarget(ev.pkt)] \ {ev.acc}) \cap DOMAIN ev.users :
             /\ ev.users[q].room = JoinTarget(ev.pkt)
             /\ ev.users[q].last_state # NONE
             /\ ev.sock[ev.users[q].socket] = "open"}
    ELSE {}

\* stream holds the identity announcement of slot w and, after it, msg
AfterIdentity(stream, w, msg) ==
    \E i, j \in 1..Len(stream) :
        i < j /\ stream[i] = MsgC(w) /\ stream[j] = msg

\* C33: a state packet (opcode 1 or 8) of an authenticated session becomes
\* the session's cached last state; and a Join of a game room writes to the
\* joiner, for every member that has a cached state, that packet with the
\* member's wire slot after the opcode, after the member's C packet.
C33_LastStateReplayed ==
    /\ DoneBy("state")
       => /\ ev.acc \in DOMAIN users
          /\ users[ev.acc].last_state = ev.pkt
    /\ (/\ DoneBy("join")
        /\ JoinTarget(ev.pkt) # Lobby
        /\ sock[ev.conn] = "open")
       => \A q \in Movers :
              AfterIdentity(sent[ev.conn], Fmt3(ev.users[q].slot),
                            Inject(ev.users[q].last_state,
                                   Fmt3(ev.users[q].slot)))

\* the room names there are: those of the registry and those the directory
\* entries refer to
RoomNames ==
    DOMAIN rooms \cup ({users[a].room : a \in DOMAIN users} \ {NONE})

\* C34: whenever no handler is mid-operation, a directory entry's room is r
\* exactly when the registry holds r and r's member set holds the entry's
\* account id.
C34_MembershipAgrees ==
    Quiescent
    => \A a \in DOMAIN users : \A r \in RoomNames :
           users[a].room = r
           <=> (r \in DOMAIN rooms /\ a \in heap[rooms[r]].players)

\* C35: every account id in the member set of a room of the registry has an
\* entry in the session directory: no room keeps a member whose session has
\* been torn down.
C35_NoGhostMember ==
    \A n \in DOMAIN rooms : heap[rooms[n]].players \subseteq DOMAIN users

\* the room the sender's directory entry named when the packet of ev arrived
SenderRoom == ev.users[ev.acc].room

\* C36: a relayed state, raw, chat or timer packet is written to the socket
\* of another session only if the sender is in the member set of the room its
\* directory entry names, and that session is a member of that room whose
\* own directory entry names it too.
C36_RelayStaysInRoom ==
    (DoneBy("relay") \/ DoneBy("raw") \/ DoneBy("chat") \/ DoneBy("timer"))
    => \A r \in Conns \ {ev.conn} :
           sent[r] # <<>>
           => /\ SenderRoom \in DOMAIN ev.members
              /\ ev.acc \in ev.members[SenderRoom]
              /\ \E q \in ev.members[SenderRoom] \cap DOMAIN ev.users :
                     /\ ev.users[q].socket = r
                     /\ ev.users[q].room = SenderRoom

\* ev is the finished disconnect of a connection whose account had, when the
\* connection closed, a directory entry that named the open socket of
\* connection d: d had authenticated as the same account after it
ClosedBesides(d) ==
    /\ ev.done
    /\ ev.op = "close"
    /\ d # ev.conn
    /\ ev.acc \in DOMAIN ev.users
    /\ ev.users[ev.acc].socket = d
    /\ ev.sock[d] = "open"
    /\ account_id[d] = ev.acc

\* C37: when two connections have authenticated as one account, the
\* disconnect of one leaves the directory entry, the slot, the socket and the
\* room membership of the other, still-open connection as they were.
C37_DoubleLoginIsolated ==
    \A d \in Conns :
        ClosedBesides(d)
        => /\ ev.acc \in DOMAIN users
           /\ users[ev.acc] = ev.users[ev.acc]
           /\ ev.users[ev.acc].slot \notin free
           /\ sock[d] = "open"
           /\ Members = ev.members

\* C38: a Join whose target room was in the registry when the packet arrived
\* ends with the session a member of that room (its account in the room's
\* member set, its directory entry naming the room), also when the target is
\* the room the session is in.
C38_JoinExistingSucceeds ==
    (DoneBy("join") /\ JoinTarget(ev.pkt) \in DOMAIN ev.members)
    => /\ JoinTarget(ev.pkt) \in DOMAIN rooms
       /\ ev.acc \in heap[rooms[JoinTarget(ev.pkt)]].players
       /\ ev.acc \in DOMAIN users
       /\ users[ev.acc].room = JoinTarget(ev.pkt)

\* the room the session of ev was a member of when its packet (or the end of
\* its connection) arrived, and the members it left behind there
Departed ==
    /\ (DoneBy("join") \/ DoneBy("create") \/ DoneBy("close"))
    /\ ev.users[ev.acc].room \in DOMAIN ev.members
    /\ ev.acc \in ev.members[ev.users[ev.acc].room]
    /\ \/ ev.users[ev.acc].room \notin DOMAIN rooms
       \/ ev.acc \notin Members[ev.users[ev.acc].room]

LeftBehind ==
    (ev.members[ev.users[ev.acc].room] \ {ev.acc}) \cap DOMAIN ev.users

\* how many times msg was written to socket s by the handler of ev
TimesSent(s, msg) == Cardinality({i \in 1..Len(sent[s]) : sent[s][i] = msg})

\* C39: when a session has left a room through a Join, a Create or its
\* disconnect, every member that remains (on an open socket) was sent the
\* notice D<slot> of the leaver exactly once, and no other socket was sent it.
C39_OneDepartedNotice ==
    Departed
    => LET notice == MsgD(Fmt3(ev.users[ev.acc].slot))
           socks == {ev.users[q].socket : q \in LeftBehind}
       IN  /\ \A s \in socks :
                  (ev.sock[s] = "open" /\ sock[s] = "open")
                  => TimesSent(s, notice) = 1
           /\ \A r \in Conns \ socks : TimesSent(r, notice) = 0

====
